---- MODULE Spec2Model ----
(***************************************************************************)
(* A model of the IRC server of JustinJudd/irc: the per-connection client, *)
(* the server directory (address, nickname and channel maps), the channel  *)
(* subsystem and the command handlers.                                      *)
(*                                                                          *)
(* Go strings are sequences of one-character strings, so that the code's   *)
(* indexing (channel.Name[0]), splitting (strings.Split) and ranging over  *)
(* the runes of a MODE parameter are modelled as the code does them.        *)
(* A Go map is a function whose DOMAIN is the set of its keys.              *)
(*                                                                          *)
(* Every Go function is an operator from a server state S (a record of the *)
(* variables) to the server state after the call; a handler is the         *)
(* composition of the calls it makes.  A run-time panic (nil dereference,  *)
(* index out of range) stops the process: S.panicked is set, what was      *)
(* written before it stays written, and nothing is written after it.       *)
(***************************************************************************)
EXTENDS Integers, Sequences, FiniteSets, TLC

VARIABLES
    config,         \* Server.Config: Password and MOTD
    clients,        \* Server.clients: the connections in the address map
    clientsByNick,  \* Server.clientsByNick: nickname -> client
    channels,       \* Server.channels: channel name -> Channel object
    chan,           \* the Channel objects of the heap, by identity
    cl,             \* the Client objects, one per connection
    sent,           \* per connection, the messages encoded to it by the last step
    last,           \* the last step taken: its client, and the command served or the timer fired
    pc,             \* per connection, where its reader task stands in a handler
    panicked,       \* the process died of a run-time panic
    wire,           \* the PRIVMSG and NOTICE traffic of the run: per client the messages it
                    \* has submitted (next) and those decoded and not yet served (flight),
                    \* per connection the messages written to it, oldest first (log)
    locks           \* when on, ev is what the last step did with the mutexes of the
                    \* directory, the channels and the clients, and with the maps they guard

vars == <<config, clients, clientsByNick, channels, chan, cl, sent, last, pc, panicked, wire, locks>>

----------------------------------------------------------------------------
(* Bounds of the model. *)

\* connections the listener accepts in a run
NumClients == 2
\* Channel objects that exist at one time (referenced by the directory or by a client)
MaxChans == 1

Clients == 1..NumClients
ChanIds == 1..MaxChans
\* the nil *Client
NoClient == 0
\* the nil *Channel
NoChan == 0

\* the nicknames, user names, keys and channel names that clients send
Nicks == { <<"a">>, <<"b">> }
UserName == <<"u">>
ServerPassword == <<"s">>
ChanNames == { <<"#", "x">>, <<"!", "x">>, <<"&", "x">>, <<"+", "x">> }
EmptyStr == <<>>

----------------------------------------------------------------------------
(* Go strings. *)

RECURSIVE SplitFrom(_, _, _)
\* strings.Split(s, sep) for a one-character sep: the fields of s, cur being the field read so far
SplitFrom(s, sep, cur) ==
    IF s = <<>> THEN << cur >>
    ELSE IF Head(s) = sep THEN << cur >> \o SplitFrom(Tail(s), sep, <<>>)
    ELSE SplitFrom(Tail(s), sep, Append(cur, Head(s)))

Split(s, sep) == SplitFrom(s, sep, <<>>)

\* a map with key k deleted (Go's delete: no effect when k is absent)
MapDelete(m, k) == [x \in (DOMAIN m) \ {k} |-> m[x]]

\* a map with m[k] = v (Go's m[k] = v: insert or overwrite)
MapPut(m, k, v) == [x \in (DOMAIN m) \cup {k} |-> IF x = k THEN v ELSE m[x]]

EmptyMap == [x \in {} |-> 0]

\* the orders in which a range over a Go map of the keys K may visit them
Orders(K) == { s \in [1..Cardinality(K) -> K] : \A i, j \in 1..Cardinality(K) : i # j => s[i] # s[j] }

----------------------------------------------------------------------------
(* Mode flags (modes.go). *)

UserModeAway == "a"
UserModeInvisible == "i"
UserModeWallOps == "w"
UserModeRestricted == "r"
UserModeOperator == "o"
UserModeLocalOperator == "O"
UserModeServerNotice == "s"
UserModes == { UserModeAway, UserModeInvisible, UserModeWallOps, UserModeRestricted,
               UserModeOperator, UserModeLocalOperator, UserModeServerNotice }

ModeModifierAdd == "+"
ModeModifierRemove == "-"

ChannelModeCreator == "O"
ChannelModeOperator == "o"
ChannelModeVoice == "v"
ChannelModeAnonymous == "a"
ChannelModeInviteOnly == "i"
ChannelModeModerated == "m"
ChannelModeNoOutsideMessages == "n"
ChannelModeQuiet == "q"
ChannelModePrivate == "p"
ChannelModeSecret == "s"
ChannelModeReOp == "r"
ChannelModeTopic == "t"
ChannelModeKey == "k"
ChannelModeLimit == "l"
ChannelModeBan == "b"
ChannelModeExceptionMask == "e"
ChannelModeInvitationMask == "I"

\* the value of a flag that carries none (the nil interface{} of AddMode)
NilValue == "nil"

\* NewChannelModeSet: the empty map of modes
NewChannelModeSet == EmptyMap

\* ChannelModeSet.HasMode
SetHasMode(modes, mode) == mode \in DOMAIN modes

\* ChannelModeSet.AddMode
SetAddMode(modes, mode) == MapPut(modes, mode, NilValue)

\* ChannelModeSet.AddModeWithValue
SetAddModeWithValue(modes, mode, value) == MapPut(modes, mode, value)

\* ChannelModeSet.RemoveMode
SetRemoveMode(modes, mode) == MapDelete(modes, mode)

----------------------------------------------------------------------------
(* The server state a handler works on. *)

\* full: the model has no Channel object left for a JOIN to create; held: the Channels
\* that handlers in flight have in a local variable; iter: the order in which the
\* handler's range over a mode map visits the flags it renders
St == [ config |-> config, clients |-> clients, clientsByNick |-> clientsByNick, channels |-> channels,
        chan |-> chan, cl |-> cl, sent |-> sent, panicked |-> panicked, full |-> FALSE,
        held |-> { pc[c].h : c \in Clients } \ { NoChan }, iter |-> <<>>, wire |-> wire,
        locks |-> [ on |-> locks.on, ev |-> <<>> ], holding |-> {} ]

NoneSent == [c \in Clients |-> <<>>]

\* no message submitted, none in flight, none written
NoTraffic == [ next |-> [c \in Clients |-> 0], flight |-> [c \in Clients |-> {}], log |-> NoneSent ]

\* Server.newClient: the Client of a connection not yet accepted is the one newClient
\* will build, except that no timer runs yet
NewClient(pw) ==
    [ conn |-> "new", Nickname |-> EmptyStr, Username |-> EmptyStr,
      Authorized |-> (Len(pw) = 0), Registered |-> FALSE,
      channels |-> EmptyMap, userModes |-> {}, AwayMessage |-> EmptyStr,
      idleTimer |-> "none", quitTimer |-> FALSE ]

\* a run-time panic: the process stops
Panic(S) == [S EXCEPT !.panicked = TRUE]

\* Conn.Encode(m) on the connection of client `to`: the message is written unless the
\* process is dead or the connection is closed
Encode(S, to, m) ==
    IF S.panicked \/ S.cl[to].conn # "open" THEN S
    ELSE [S EXCEPT !.sent[to] = Append(@, m)]

\* a message as the properties read it: its command, its source (0 for the server, else the
\* sending client) and its parameters
Msg(cmd, src, args) == [cmd |-> cmd, src |-> src, args |-> args]

Srv == 0

----------------------------------------------------------------------------
(* The mutexes.  A step that is observed (locks.on) records each acquisition with the
   mutexes its task holds at that moment, and each access to a map made outside the
   method that locks it. *)

\* Server.clientMutex
ClientMutex == [ mutex |-> "Server.clientMutex", of |-> Srv ]

\* Server.clientByNickMutex
ClientByNickMutex == [ mutex |-> "Server.clientByNickMutex", of |-> Srv ]

\* Server.channelMutex
ChannelMutex == [ mutex |-> "Server.channelMutex", of |-> Srv ]

\* Channel.membersMutex of Channel h
MembersMutex(h) == [ mutex |-> "Channel.membersMutex", of |-> h ]

\* Client.channelMutex of client c
ClientChannelMutex(c) == [ mutex |-> "Client.channelMutex", of |-> c ]

\* the task does op on the mutex m, or on the map that m guards
Event(S, op, m) ==
    IF S.panicked \/ ~S.locks.on THEN S
    ELSE [S EXCEPT !.locks.ev = Append(@, [ op |-> op, on |-> m, held |-> S.holding ])]

\* m.Lock()
Lock(S, m) == LET S1 == Event(S, "Lock", m) IN [S1 EXCEPT !.holding = @ \cup { m }]

\* m.RLock()
RLock(S, m) == LET S1 == Event(S, "RLock", m) IN [S1 EXCEPT !.holding = @ \cup { m }]

\* m.Unlock() and m.RUnlock(), deferred or not
Unlock(S, m) == [S EXCEPT !.holding = @ \ { m }]

\* a method that takes the read lock of m, reads and returns (GetClientByNick, HasMember)
Reads(S, m) == Unlock(RLock(S, m), m)

\* a range over the map that m guards, or len of it, in the code of the caller
Ranges(S, m) == Event(S, "range", m)

----------------------------------------------------------------------------
(* Server: the directory (server.go). *)

\* Server.AddClient
AddClient(S, c) ==
    IF S.panicked THEN S
    ELSE Unlock([Lock(S, ClientMutex) EXCEPT !.clients = @ \cup {c}], ClientMutex)

\* Server.RemoveClient
RemoveClient(S, c) ==
    IF S.panicked THEN S
    ELSE Unlock([Lock(S, ClientMutex) EXCEPT !.clients = @ \ {c}], ClientMutex)

\* Server.AddClientNick: s.clientsByNick[client.Nickname] = client
AddClientNick(S, c) ==
    IF S.panicked THEN S
    ELSE Unlock([Lock(S, ClientByNickMutex) EXCEPT !.clientsByNick = MapPut(@, S.cl[c].Nickname, c)],
                ClientByNickMutex)

\* Server.RemoveClientNick: delete(s.clientsByNick, client.Nickname)
RemoveClientNick(S, c) ==
    IF S.panicked THEN S
    ELSE Unlock([Lock(S, ClientByNickMutex) EXCEPT !.clientsByNick = MapDelete(@, S.cl[c].Nickname)],
                ClientByNickMutex)

\* Server.UpdateClientNick: delete the old entry, then write the new one, whoever holds it
UpdateClientNick(S, c, oldNick) ==
    IF S.panicked THEN S
    ELSE Unlock([Lock(S, ClientByNickMutex)
                    EXCEPT !.clientsByNick = MapPut(MapDelete(@, oldNick), S.cl[c].Nickname, c)],
                ClientByNickMutex)

\* Server.GetClientByNick: the client, NoClient (nil, with ok false) when absent
GetClientByNick(S, nick) ==
    IF nick \in DOMAIN S.clientsByNick THEN S.clientsByNick[nick] ELSE NoClient

\* Server.AddChannel: s.channels[channel.Name] = channel
ServerAddChannel(S, h) ==
    IF S.panicked THEN S
    ELSE Unlock([Lock(S, ChannelMutex) EXCEPT !.channels = MapPut(@, S.chan[h].Name, h)], ChannelMutex)

\* Server.RemoveChannel as it would be if it asked the channel for its member count first
ServerRemoveChannelIfEmpty(S, h) ==
    IF S.panicked THEN S
    ELSE LET S1 == Reads(Lock(S, ChannelMutex), MembersMutex(h))
         IN  Unlock([S1 EXCEPT !.channels = MapDelete(@, S.chan[h].Name)], ChannelMutex)

\* Server.RemoveChannel: delete(s.channels, channel.Name)
ServerRemoveChannel(S, h) ==
    IF S.panicked THEN S
    ELSE Unlock([Lock(S, ChannelMutex) EXCEPT !.channels = MapDelete(@, S.chan[h].Name)], ChannelMutex)

\* Server.GetChannel: the channel, NoChan (nil, with ok false) when absent
GetChannel(S, name) ==
    IF name \in DOMAIN S.channels THEN S.channels[name] ELSE NoChan

----------------------------------------------------------------------------
(* Channel: membership (unnamed/part_001). *)

\* the nil *ChannelModeSet that UpdateMemberNick stores for a nickname that was no member
NilModeSet == [x \in {"<nil>"} |-> NilValue]

\* NewChannel, with the name and key JoinHandler then assigns
NewChannel(name, key) ==
    [ Name |-> name, modes |-> NewChannelModeSet, Topic |-> EmptyStr, Key |-> key,
      members |-> EmptyMap ]

\* Channel.HasMember
HasMember(S, h, c) == S.cl[c].Nickname \in DOMAIN S.chan[h].members

\* Channel.GetMemberCount
GetMemberCount(S, h) == Cardinality(DOMAIN S.chan[h].members)

\* ChannelModeSet.HasMode on the channel's own modes
HasMode(S, h, mode) == SetHasMode(S.chan[h].modes, mode)

\* ChannelModeSet.GetLimit: 0 when the value is nil
GetLimit(S, h) ==
    IF ChannelModeLimit \in DOMAIN S.chan[h].modes THEN S.chan[h].modes[ChannelModeLimit] ELSE 0

RECURSIVE Itoa(_)
\* fmt.Sprintf("%v", n) of an int
Itoa(n) ==
    LET digit(d) == << "0", "1", "2", "3", "4", "5", "6", "7", "8", "9" >>[d + 1]
    IN  IF n < 0 THEN <<"-">> \o Itoa(0 - n)
        ELSE IF n < 10 THEN << digit(n) >>
        ELSE Itoa(n \div 10) \o << digit(n % 10) >>

\* the flags ChannelModeSet.String renders
StringFlags == { ChannelModeKey, ChannelModeLimit, ChannelModeModerated, ChannelModeAnonymous,
                 ChannelModeInviteOnly, ChannelModePrivate, ChannelModeSecret, ChannelModeTopic }

RECURSIVE StringParams(_, _)
\* the second loop of ChannelModeSet.String: a blank and the value for every value that
\* is not nil; the key is a string, the limit an int, every other rendered flag has nil
StringParams(modes, order) ==
    IF order = <<>> THEN <<>>
    ELSE LET m == Head(order)
             param == IF m = ChannelModeKey THEN <<" ">> \o modes[m]
                      ELSE IF m = ChannelModeLimit THEN <<" ">> \o Itoa(modes[m])
                      ELSE <<>>
         IN  param \o StringParams(modes, Tail(order))

\* ChannelModeSet.String, order being the order in which the range over the map visits
\* the flags that are rendered
ModeSetString(modes, order) == <<"+">> \o order \o StringParams(modes, order)

\* ChannelModeSet.SetKey: AddModeWithValue(ChannelModeKey, key); Channel.Key is not written
SetKey(S, h, key) ==
    IF S.panicked THEN S
    ELSE [S EXCEPT !.chan[h].modes = SetAddModeWithValue(@, ChannelModeKey, key)]

\* ChannelModeSet.SetLimit
SetLimit(S, h, limit) ==
    IF S.panicked THEN S
    ELSE [S EXCEPT !.chan[h].modes = SetAddModeWithValue(@, ChannelModeLimit, limit)]

\* ChannelModeSet.AddMode on the channel's own modes
AddMode(S, h, mode) ==
    IF S.panicked THEN S ELSE [S EXCEPT !.chan[h].modes = SetAddMode(@, mode)]

\* ChannelModeSet.RemoveMode on the channel's own modes
RemoveMode(S, h, mode) ==
    IF S.panicked THEN S ELSE [S EXCEPT !.chan[h].modes = SetRemoveMode(@, mode)]

\* Channel.AddMember: no effect when the nickname is a member already
AddMember(S, h, c) ==
    IF S.panicked THEN S
    ELSE LET S1 == Lock(S, MembersMutex(h))
             S2 == IF HasMember(S, h, c) THEN S1
                   ELSE [S1 EXCEPT !.chan[h].members = MapPut(@, S.cl[c].Nickname, NewChannelModeSet)]
         IN  Unlock(S2, MembersMutex(h))

\* Channel.delete: the channel leaves the directory when it has no member; len(c.members)
\* is read without a lock of its own
ChannelDelete(S, h) ==
    LET S1 == Ranges(S, MembersMutex(h))
    IN  IF GetMemberCount(S, h) # 0 THEN S1 ELSE ServerRemoveChannel(S1, h)

\* Channel.RemoveMember as a plausible slip would have it: the emptied channel stays
RemoveMemberNoDelete(S, h, c) ==
    IF S.panicked THEN S
    ELSE [S EXCEPT !.chan[h].members = MapDelete(@, S.cl[c].Nickname)]

\* Channel.RemoveMember: delete the nickname, and delete the channel when none is left
RemoveMember(S, h, c) ==
    IF S.panicked THEN S
    ELSE LET S1 == [Lock(S, MembersMutex(h)) EXCEPT !.chan[h].members = MapDelete(@, S.cl[c].Nickname)]
             S2 == IF GetMemberCount(S1, h) = 0 THEN ChannelDelete(S1, h) ELSE S1
         IN  Unlock(S2, MembersMutex(h))

\* Channel.UpdateMemberNick: the entry of oldNick (nil when there is none) moves to
\* the client's present nickname
UpdateMemberNick(S, h, c, oldNick) ==
    IF S.panicked THEN S
    ELSE LET m == S.chan[h].members
             modes == IF oldNick \in DOMAIN m THEN m[oldNick] ELSE NilModeSet
         IN  Unlock([Lock(S, MembersMutex(h))
                        EXCEPT !.chan[h].members = MapPut(MapDelete(m, oldNick), S.cl[c].Nickname, modes)],
                    MembersMutex(h))

\* Channel.AddMemberMode; calling AddMode on a nil *ChannelModeSet panics
AddMemberMode(S, h, c, mode) ==
    LET nick == S.cl[c].Nickname
        m == S.chan[h].members
    IN  IF S.panicked THEN S
        ELSE IF nick \notin DOMAIN m THEN Unlock(Lock(S, MembersMutex(h)), MembersMutex(h))
        ELSE IF m[nick] = NilModeSet THEN Panic(S)
        ELSE Unlock([Lock(S, MembersMutex(h)) EXCEPT !.chan[h].members[nick] = SetAddMode(@, mode)],
                    MembersMutex(h))

\* Channel.RemoveMemberMode; calling RemoveMode on a nil *ChannelModeSet panics
RemoveMemberMode(S, h, c, mode) ==
    LET nick == S.cl[c].Nickname
        m == S.chan[h].members
    IN  IF S.panicked THEN S
        ELSE IF nick \notin DOMAIN m THEN Unlock(Lock(S, MembersMutex(h)), MembersMutex(h))
        ELSE IF m[nick] = NilModeSet THEN Panic(S)
        ELSE Unlock([Lock(S, MembersMutex(h)) EXCEPT !.chan[h].members[nick] = SetRemoveMode(@, mode)],
                    MembersMutex(h))

\* Channel.MemberHasMode panics on a nil *ChannelModeSet
MemberHasModePanics(S, h, c) ==
    /\ HasMember(S, h, c)
    /\ S.chan[h].members[S.cl[c].Nickname] = NilModeSet

\* Channel.MemberHasMode
MemberHasMode(S, h, c, mode) ==
    /\ HasMember(S, h, c)
    /\ SetHasMode(S.chan[h].members[S.cl[c].Nickname], mode)

\* the members of the channel that SendMessage reaches: those the directory knows
Recipients(S, h, skip) ==
    { GetClientByNick(S, n) : n \in (DOMAIN S.chan[h].members) \ skip } \ {NoClient}

RECURSIVE EncodeAll(_, _, _)
\* Encode m to each client of the set cs (one Encode each; the order between
\* different connections is not observable in sent)
EncodeAll(S, cs, m) ==
    IF cs = {} THEN S
    ELSE LET c == CHOOSE x \in cs : TRUE
         IN  EncodeAll(Encode(S, c, m), cs \ {c}, m)

\* the range of SendMessage and SendMessageToOthers over c.members, which takes no lock,
\* with the GetClientByNick of its body
RangeMembers(S, h) ==
    LET S1 == Ranges(S, MembersMutex(h))
    IN  IF DOMAIN S.chan[h].members = {} THEN S1 ELSE Reads(S1, ClientByNickMutex)

\* Channel.SendMessage: to every member the directory maps to a client
SendMessage(S, h, m) == EncodeAll(RangeMembers(S, h), Recipients(S, h, {}), m)

\* Channel.SendMessageToOthers: members whose key equals the sender's nickname are skipped
SendMessageToOthers(S, h, m, c) == EncodeAll(RangeMembers(S, h), Recipients(S, h, {S.cl[c].Nickname}), m)

----------------------------------------------------------------------------
(* Client (unnamed/part_000). *)

\* Client.AddChannel
ClientAddChannel(S, c, h) ==
    IF S.panicked THEN S
    ELSE Unlock([Lock(S, ClientChannelMutex(c)) EXCEPT !.cl[c].channels = MapPut(@, S.chan[h].Name, h)],
                ClientChannelMutex(c))

\* Client.RemoveChannel
ClientRemoveChannel(S, c, h) ==
    IF S.panicked THEN S
    ELSE Unlock([Lock(S, ClientChannelMutex(c)) EXCEPT !.cl[c].channels = MapDelete(@, S.chan[h].Name)],
                ClientChannelMutex(c))

\* Client.Close: both directory entries go, then the connection is closed
Close(S, c) ==
    LET S1 == RemoveClientNick(RemoveClient(S, c), c)
    IN  IF S1.panicked THEN S1 ELSE [S1 EXCEPT !.cl[c].conn = "closed"]

\* Client.Ping
Ping(S, c) == Encode(S, c, Msg("PING", Srv, <<>>))

\* Client.Pong
Pong(S, c) == Encode(S, c, Msg("PONG", Srv, <<>>))

\* Client.MOTD: ERR_NOMOTD when the MOTD is empty, and in every case the three-line block
MOTD(S, c) ==
    LET n == S.cl[c].Nickname
        S1 == IF Len(S.config.MOTD) = 0 THEN Encode(S, c, Msg("ERR_NOMOTD", Srv, <<n>>)) ELSE S
        S2 == Encode(S1, c, Msg("RPL_MOTDSTART", Srv, <<n>>))
        S3 == Encode(S2, c, Msg("RPL_MOTD", Srv, <<n, S.config.MOTD>>))
    IN  Encode(S3, c, Msg("RPL_ENDOFMOTD", Srv, <<n>>))

\* Client.Welcome: the client is registered, and is sent the four replies and the MOTD
\* (an Encode that fails ends it: Encode writes nothing to a closed connection)
Welcome(S, c) ==
    LET n == S.cl[c].Nickname
        S0 == IF S.panicked THEN S ELSE [S EXCEPT !.cl[c].Registered = TRUE]
        S1 == Encode(S0, c, Msg("RPL_WELCOME", Srv, <<n>>))
        S2 == Encode(S1, c, Msg("RPL_YOURHOST", Srv, <<n>>))
        S3 == Encode(S2, c, Msg("RPL_CREATED", Srv, <<n>>))
        S4 == Encode(S3, c, Msg("RPL_MYINFO", Srv, <<n>>))
    IN  IF S.cl[c].conn # "open" THEN S0 ELSE MOTD(S4, c)


----------------------------------------------------------------------------
(* Channel: the operations with their fan-out (unnamed/part_001). *)

\* the character NAMES puts before a nickname: @ for an operator, + for a voiced member
NamePrefix(S, h, mc) ==
    IF MemberHasMode(S, h, mc, ChannelModeOperator) THEN "@"
    ELSE IF MemberHasMode(S, h, mc, ChannelModeVoice) THEN "+"
    ELSE ""

\* Channel.Names: silent for a non-member of a secret or private channel; else one
\* RPL_NAMREPLY (the model holds fewer than 20 members, so one batch).  The loop calls
\* mClient.HasMode before it tests mClient for nil: a member the directory does not know
\* is a nil dereference.
Names(S, h, c) ==
    LET isMember == HasMember(S, h, c)
        ms == DOMAIN S.chan[h].members
        channelPrefix == IF HasMode(S, h, ChannelModePrivate) THEN "*"
                         ELSE IF HasMode(S, h, ChannelModeSecret) THEN "@"
                         ELSE "="
        shown == { n \in ms : ~(UserModeInvisible \in S.cl[GetClientByNick(S, n)].userModes /\ ~isMember) }
        listed == { << NamePrefix(S, h, GetClientByNick(S, n)), S.cl[GetClientByNick(S, n)].Nickname >> : n \in shown }
    IN  IF S.panicked THEN S
        ELSE IF HasMode(S, h, ChannelModeSecret) /\ ~isMember THEN S
        ELSE IF HasMode(S, h, ChannelModePrivate) /\ ~isMember THEN S
        ELSE IF \E n \in ms : GetClientByNick(S, n) = NoClient THEN Panic(S)
        ELSE IF \E n \in shown : MemberHasModePanics(S, h, GetClientByNick(S, n)) THEN Panic(S)
        ELSE Encode(RangeMembers(S, h), c,
                    Msg("RPL_NAMREPLY", Srv, << S.cl[c].Nickname, channelPrefix, S.chan[h].Name, listed >>))

\* Channel.Join without the early return for a client that is already a member
JoinNoMemberCheck(S, h, c, key) ==
    IF S.panicked THEN S
    ELSE IF HasMode(S, h, ChannelModeKey) /\ S.chan[h].Key # key
         THEN Encode(S, c, Msg("ERR_BADCHANNELKEY", Srv, << S.cl[c].Nickname, S.chan[h].Name >>))
    ELSE LET S1 == IF HasMode(S, h, ChannelModeLimit) /\ GetMemberCount(S, h) >= GetLimit(S, h)
                   THEN Encode(S, c, Msg("ERR_CHANNELISFULL", Srv, << S.cl[c].Nickname, S.chan[h].Name >>))
                   ELSE S
             creator == GetMemberCount(S1, h) = 0
             S2 == ClientAddChannel(AddMember(S1, h, c), c, h)
             S3 == IF creator
                   THEN LET S31 == AddMemberMode(S2, h, c, ChannelModeOperator)
                        IN  IF Len(key) # 0 THEN SetKey(S31, h, key) ELSE S31
                   ELSE S2
             S4 == IF Len(S3.chan[h].Topic) # 0
                   THEN Encode(S3, c, Msg("RPL_TOPIC", Srv, << S3.chan[h].Name, S3.chan[h].Topic >>))
                   ELSE S3
             S5 == SendMessage(S4, h, Msg("JOIN", c, << S4.chan[h].Name >>))
         IN  Names(S5, h, c)

\* Channel.Join as a plausible slip would have it: the creator is looked for after the
\* member was added, so nobody is made operator
JoinCreatorAfterAdd(S, h, c, key) ==
    IF S.panicked \/ HasMember(S, h, c) THEN S
    ELSE IF HasMode(S, h, ChannelModeKey) /\ S.chan[h].Key # key
         THEN Encode(S, c, Msg("ERR_BADCHANNELKEY", Srv, << S.cl[c].Nickname, S.chan[h].Name >>))
    ELSE LET S1 == IF HasMode(S, h, ChannelModeLimit) /\ GetMemberCount(S, h) >= GetLimit(S, h)
                   THEN Encode(S, c, Msg("ERR_CHANNELISFULL", Srv, << S.cl[c].Nickname, S.chan[h].Name >>))
                   ELSE S
             S2 == ClientAddChannel(AddMember(S1, h, c), c, h)
             creator == GetMemberCount(S2, h) = 0
             S3 == IF creator
                   THEN LET S31 == AddMemberMode(S2, h, c, ChannelModeOperator)
                        IN  IF Len(key) # 0 THEN SetKey(S31, h, key) ELSE S31
                   ELSE S2
             S4 == IF Len(S3.chan[h].Topic) # 0
                   THEN Encode(S3, c, Msg("RPL_TOPIC", Srv, << S3.chan[h].Name, S3.chan[h].Topic >>))
                   ELSE S3
             S5 == SendMessage(S4, h, Msg("JOIN", c, << S4.chan[h].Name >>))
         IN  Names(S5, h, c)

\* Channel.Join
Join(S, h, c, key) ==
    IF S.panicked \/ HasMember(S, h, c) THEN S
    ELSE IF HasMode(S, h, ChannelModeKey) /\ S.chan[h].Key # key
         THEN Encode(S, c, Msg("ERR_BADCHANNELKEY", Srv, << S.cl[c].Nickname, S.chan[h].Name >>))
    ELSE LET S1 == IF HasMode(S, h, ChannelModeLimit) /\ GetMemberCount(S, h) >= GetLimit(S, h)
                   THEN Encode(S, c, Msg("ERR_CHANNELISFULL", Srv, << S.cl[c].Nickname, S.chan[h].Name >>))
                   ELSE S
             creator == GetMemberCount(S1, h) = 0
             S2 == ClientAddChannel(AddMember(S1, h, c), c, h)
             S3 == IF creator
                   THEN LET S31 == AddMemberMode(S2, h, c, ChannelModeOperator)
                        IN  IF Len(key) # 0 THEN SetKey(S31, h, key) ELSE S31
                   ELSE S2
             S4 == IF Len(S3.chan[h].Topic) # 0
                   THEN Encode(S3, c, Msg("RPL_TOPIC", Srv, << S3.chan[h].Name, S3.chan[h].Topic >>))
                   ELSE S3
             S5 == SendMessage(S4, h, Msg("JOIN", c, << S4.chan[h].Name >>))
         IN  Names(S5, h, c)

\* Channel.Part
Part(S, h, c, message) ==
    IF S.panicked THEN S
    ELSE IF ~HasMember(S, h, c)
         THEN Encode(S, c, Msg("ERR_NOTONCHANNEL", Srv, << S.chan[h].Name >>))
    ELSE LET S1 == SendMessage(S, h, Msg("PART", c, << S.chan[h].Name, message >>))
         IN  ClientRemoveChannel(RemoveMember(S1, h, c), c, h)

\* Channel.Quit: silent for a non-member; the client's own channel map is left alone
Quit(S, h, c, message) ==
    IF S.panicked \/ ~HasMember(S, h, c) THEN S
    ELSE LET S1 == SendMessage(S, h, Msg("QUIT", c, << S.chan[h].Name, message >>))
         IN  RemoveMember(S1, h, c)

\* Channel.Message
Message(S, h, c, message) ==
    SendMessageToOthers(S, h, Msg("PRIVMSG", c, << S.chan[h].Name, message >>), c)

\* Channel.Notice
Notice(S, h, c, message) ==
    SendMessageToOthers(S, h, Msg("NOTICE", c, << S.chan[h].Name, message >>), c)

RECURSIVE KickEach(_, _, _, _, _)
\* the loop of Channel.Kick over the kicked names: a name the directory does not know
\* ends the whole loop with ERR_USERNOTINCHANNEL
KickEach(S, h, c, kicked, message) ==
    IF S.panicked \/ kicked = <<>> THEN S
    ELSE LET kickedName == Head(kicked)
             kickedClient == GetClientByNick(S, kickedName)
         IN  IF kickedClient = NoClient
             THEN Encode(S, c, Msg("ERR_USERNOTINCHANNEL", Srv, << S.cl[c].Nickname, kickedName, S.chan[h].Name >>))
             ELSE LET S1 == SendMessage(S, h, Msg("KICK", c, << S.chan[h].Name, kickedName, message >>))
                      S2 == ClientRemoveChannel(RemoveMember(S1, h, kickedClient), kickedClient, h)
                  IN  KickEach(S2, h, c, Tail(kicked), message)

\* Channel.Kick
Kick(S, h, c, kicked, message) ==
    IF S.panicked THEN S
    ELSE IF ~HasMember(S, h, c)
         THEN Encode(S, c, Msg("ERR_NOTONCHANNEL", Srv, << S.cl[c].Nickname, S.chan[h].Name >>))
    ELSE IF MemberHasModePanics(S, h, c) THEN Panic(S)
    ELSE IF ~MemberHasMode(S, h, c, ChannelModeOperator)
         THEN Encode(S, c, Msg("ERR_CHANOPRIVSNEEDED", Srv, << S.cl[c].Nickname, S.chan[h].Name >>))
    ELSE KickEach(S, h, c, kicked, message)

\* Channel.TopicCommand
TopicCommand(S, h, c, topic) ==
    IF S.panicked THEN S
    ELSE IF ~HasMember(S, h, c)
         THEN Encode(S, c, Msg("ERR_NOTONCHANNEL", Srv, << S.chan[h].Name >>))
    ELSE IF Len(topic) = 0
         THEN IF Len(S.chan[h].Topic) = 0
              THEN Encode(S, c, Msg("RPL_NOTOPIC", Srv, << S.chan[h].Name >>))
              ELSE Encode(S, c, Msg("RPL_TOPIC", Srv, << S.chan[h].Name, S.chan[h].Topic >>))
    ELSE IF MemberHasModePanics(S, h, c) THEN Panic(S)
    ELSE IF MemberHasMode(S, h, c, ChannelModeOperator) \/ ~HasMode(S, h, ChannelModeTopic)
         THEN SendMessage([S EXCEPT !.chan[h].Topic = topic], h, Msg("TOPIC", c, << S.chan[h].Name, topic >>))
    ELSE Encode(S, c, Msg("ERR_CHANOPRIVSNEEDED", Srv, << S.chan[h].Name >>))

----------------------------------------------------------------------------
(* Client: leaving and renaming (unnamed/part_000). *)

RECURSIVE QuitChannels(_, _, _, _)
\* the loop `for _, channel := range client.GetChannels() { channel.Quit(client, m) }`,
\* the map visited in the order ord of its keys
QuitChannels(S, c, ord, message) ==
    IF ord = <<>> THEN S
    ELSE QuitChannels(Quit(S, S.cl[c].channels[Head(ord)], c, message), c, Tail(ord), message)

\* Client.Quit: QUIT to the client itself, then Close
ClientQuit(S, c) ==
    Close(Encode(S, c, Msg("QUIT", Srv, << S.cl[c].Nickname >>)), c)

\* Client.quit, the callback of the quit timer (and of the idle timer of a client
\* that is not registered)
ClientQuitTimer(S, c, ord) ==
    ClientQuit(QuitChannels(S, c, ord, <<"Disconnected">>), c)

\* Client.idle, the callback of the idle timer of a registered client
ClientIdle(S, c) ==
    LET S1 == Ping(S, c)
    IN  IF S1.panicked THEN S1 ELSE [S1 EXCEPT !.cl[c].quitTimer = TRUE]

RECURSIVE UpdateNickChannels(_, _, _, _, _, _)
\* the loop of Client.UpdateNick over the client's channels: the member key is renamed,
\* then NICK goes to each member the directory knows that was not notified yet
UpdateNickChannels(S, c, oldNick, ord, m, notified) ==
    IF S.panicked \/ ord = <<>> THEN S
    ELSE LET h == S.cl[c].channels[Head(ord)]
             S1 == RangeMembers(UpdateMemberNick(S, h, c, oldNick), h)
             new == { n \in DOMAIN S1.chan[h].members :
                        GetClientByNick(S1, n) # NoClient /\ n \notin notified }
             S2 == EncodeAll(S1, { GetClientByNick(S1, n) : n \in new }, m)
         IN  UpdateNickChannels(S2, c, oldNick, Tail(ord), m, notified \cup new)

\* Client.UpdateNick
UpdateNick(S, c, newNick, ord) ==
    LET oldNick == S.cl[c].Nickname
        S1 == IF S.panicked THEN S ELSE [S EXCEPT !.cl[c].Nickname = newNick]
        S2 == UpdateClientNick(S1, c, oldNick)
        m == Msg("NICK", c, << newNick >>)
        S3 == Encode(RLock(S2, ClientChannelMutex(c)), c, m)
    IN  Unlock(UpdateNickChannels(S3, c, oldNick, ord, m, { newNick }), ClientChannelMutex(c))


----------------------------------------------------------------------------
(* Command handlers (commands.go).  A message is [Command, Params, Trailing]. *)

Message3(command, params, trailing) ==
    [Command |-> command, Params |-> params, Trailing |-> trailing]

\* PingHandler
PingHandler(S, c, message) == Pong(S, c)

\* PongHandler
PongHandler(S, c, message) == S

\* QuitHandler
QuitHandler(S, c, message, ord) ==
    LET leavingMessage == IF Len(message.Params) # 0 THEN message.Params[1]
                          ELSE IF Len(message.Trailing) # 0 THEN message.Trailing
                          ELSE S.cl[c].Nickname
        S1 == QuitChannels(S, c, ord, leavingMessage)
        S2 == Encode(S1, c, Msg("ERROR", Srv, << <<"q", "u", "i", "t">> >>))
    IN  Close(S2, c)

\* PassHandler
PassHandler(S, c, message) ==
    IF Len(message.Params) = 0
    THEN Encode(S, c, Msg("ERR_NEEDMOREPARAMS", Srv, <<>>))
    ELSE IF Len(S.cl[c].Nickname) # 0 \/ Len(S.cl[c].Username) # 0
    THEN Encode(S, c, Msg("ERR_ALREADYREGISTRED", Srv, <<>>))
    ELSE [S EXCEPT !.cl[c].Authorized = (message.Params[1] = S.config.Password)]

\* NickHandler from its switch on, with Welcome called again when a registered client
\* changes its nickname
NickSwitchWelcomeAgain(S, c, newNickname, found, ord) ==
    IF ~S.cl[c].Authorized
    THEN Encode(S, c, Msg("ERR_PASSWDMISMATCH", Srv, << newNickname >>))
    ELSE IF found
    THEN Encode(S, c, Msg("ERR_NICKNAMEINUSE", Srv, << newNickname >>))
    ELSE IF Len(S.cl[c].Nickname) = 0 /\ Len(S.cl[c].Username) # 0
    THEN Welcome(AddClientNick([S EXCEPT !.cl[c].Nickname = newNickname], c), c)
    ELSE IF Len(S.cl[c].Username) # 0
    THEN Welcome(UpdateNick(S, c, newNickname, ord), c)
    ELSE [S EXCEPT !.cl[c].Nickname = newNickname]

\* NickHandler from its switch on, without the case of a client that is not authorized
NickSwitchNoPassword(S, c, newNickname, found, ord) ==
    IF found
    THEN Encode(S, c, Msg("ERR_NICKNAMEINUSE", Srv, << newNickname >>))
    ELSE IF Len(S.cl[c].Nickname) = 0 /\ Len(S.cl[c].Username) # 0
    THEN Welcome(AddClientNick([S EXCEPT !.cl[c].Nickname = newNickname], c), c)
    ELSE IF Len(S.cl[c].Username) # 0
    THEN UpdateNick(S, c, newNickname, ord)
    ELSE [S EXCEPT !.cl[c].Nickname = newNickname]

\* NickHandler from its switch on (lines 96-121), found being what the lookup of line 94
\* returned
NickSwitch(S, c, newNickname, found, ord) ==
    IF ~S.cl[c].Authorized
    THEN Encode(S, c, Msg("ERR_PASSWDMISMATCH", Srv, << newNickname >>))
    ELSE IF found
    THEN Encode(S, c, Msg("ERR_NICKNAMEINUSE", Srv, << newNickname >>))
    ELSE IF Len(S.cl[c].Nickname) = 0 /\ Len(S.cl[c].Username) # 0
    THEN Welcome(AddClientNick([S EXCEPT !.cl[c].Nickname = newNickname], c), c)
    ELSE IF Len(S.cl[c].Username) # 0
    THEN UpdateNick(S, c, newNickname, ord)
    ELSE [S EXCEPT !.cl[c].Nickname = newNickname]

\* NickHandler
NickHandler(S, c, message, ord) ==
    IF Len(message.Params) = 0
    THEN Encode(S, c, Msg("ERR_NONICKNAMEGIVEN", Srv, <<>>))
    ELSE NickSwitch(S, c, message.Params[1], GetClientByNick(S, message.Params[1]) # NoClient, ord)

\* UserHandler
UserHandler(S, c, message) ==
    IF Len(S.cl[c].Username) # 0
    THEN Encode(S, c, Msg("ERR_ALREADYREGISTRED", Srv, <<>>))
    ELSE IF Len(message.Params) # 3
    THEN Encode(S, c, Msg("ERR_NEEDMOREPARAMS", Srv, <<>>))
    ELSE LET S1 == [S EXCEPT !.cl[c].Username = message.Params[2]]
         IN  IF Len(S1.cl[c].Nickname) # 0 THEN Welcome(S1, c) ELSE S1

RECURSIVE PartChannels(_, _, _, _)
\* the loop `for _, channel := range client.GetChannels() { channel.Part(client, "") }`
PartChannels(S, c, ord, message) ==
    IF ord = <<>> THEN S
    ELSE IF Head(ord) \notin DOMAIN S.cl[c].channels THEN PartChannels(S, c, Tail(ord), message)
    ELSE PartChannels(Part(S, S.cl[c].channels[Head(ord)], c, message), c, Tail(ord), message)

\* the Channel objects of the heap that are free to be allocated
FreeChans(S) == ChanIds \ DOMAIN S.chan

RECURSIVE JoinEach(_, _, _, _, _)
\* the loop of JoinHandler over the channel names, i counting from 1: a name the
\* directory does not know gets a new Channel, added to the directory before Join
JoinEach(S, c, channelList, keyList, i) ==
    IF S.panicked \/ S.full \/ i > Len(channelList) THEN S
    ELSE LET cName == channelList[i]
             key == IF Len(keyList) >= i THEN keyList[i] ELSE EmptyStr
             found == GetChannel(S, cName)
         IN  IF found # NoChan
             THEN JoinEach(Join(S, found, c, key), c, channelList, keyList, i + 1)
             ELSE IF FreeChans(S) = {} THEN [S EXCEPT !.full = TRUE]
             ELSE LET h == CHOOSE x \in FreeChans(S) : \A y \in FreeChans(S) : x <= y
                      S1 == [S EXCEPT !.chan = MapPut(@, h, NewChannel(cName, key))]
                      S2 == ServerAddChannel(S1, h)
                  IN  JoinEach(Join(S2, h, c, key), c, channelList, keyList, i + 1)

\* JoinHandler: message.Params[0] is read before the number of parameters is looked at
JoinHandler(S, c, message, ord) ==
    IF Len(message.Params) = 0 THEN Panic(S)
    ELSE LET channelNames == message.Params[1]
             keys == IF Len(message.Params) >= 2 THEN message.Params[2] ELSE EmptyStr
         IN  IF channelNames = <<"0">> THEN PartChannels(S, c, ord, EmptyStr)
             ELSE JoinEach(S, c, Split(channelNames, ","), Split(keys, ","), 1)

RECURSIVE PartEach(_, _, _, _)
\* the loop of PartHandler over message.Params
PartEach(S, c, names, trailing) ==
    IF S.panicked \/ names = <<>> THEN S
    ELSE LET h == GetChannel(S, Head(names))
             S1 == IF h = NoChan THEN Encode(S, c, Msg("ERR_NOSUCHCHANNEL", Srv, <<>>))
                   ELSE Part(S, h, c, trailing)
         IN  PartEach(S1, c, Tail(names), trailing)

\* PartHandler
PartHandler(S, c, message) ==
    IF Len(message.Params) = 0
    THEN Encode(S, c, Msg("ERR_NEEDMOREPARAMS", Srv, <<>>))
    ELSE PartEach(S, c, message.Params, message.Trailing)

\* PrivMsgHandler
PrivMsgHandler(S, c, message) ==
    IF Len(message.Params) = 0
    THEN Encode(S, c, Msg("ERR_NORECIPIENT", Srv, << S.cl[c].Nickname >>))
    ELSE IF Len(message.Params) > 1
    THEN Encode(S, c, Msg("ERR_TOOMANYTARGETS", Srv, << S.cl[c].Nickname >>))
    ELSE IF Len(message.Trailing) = 0
    THEN Encode(S, c, Msg("ERR_NOTEXTTOSEND", Srv, << S.cl[c].Nickname >>))
    ELSE LET to == message.Params[1]
             ch == GetChannel(S, to)
             target == GetClientByNick(S, to)
         IN  IF ch # NoChan THEN Message(S, ch, c, message.Trailing)
             ELSE IF target # NoClient
             THEN LET S1 == Encode(S, target, Msg("PRIVMSG", c, << S.cl[target].Nickname, message.Trailing >>))
                  IN  IF UserModeAway \in S.cl[target].userModes
                      THEN Encode(S1, c, Msg("RPL_AWAY", Srv, << S.cl[c].Nickname, S.cl[target].Nickname, S.cl[target].AwayMessage >>))
                      ELSE S1
             ELSE Encode(S, c, Msg("ERR_NOSUCHNICK", Srv, << S.cl[c].Nickname >>))

\* NoticeHandler
NoticeHandler(S, c, message) ==
    IF Len(message.Params) = 0
    THEN Encode(S, c, Msg("ERR_NORECIPIENT", Srv, << S.cl[c].Nickname >>))
    ELSE IF Len(message.Params) > 1
    THEN Encode(S, c, Msg("ERR_TOOMANYTARGETS", Srv, << S.cl[c].Nickname >>))
    ELSE IF Len(message.Trailing) = 0
    THEN Encode(S, c, Msg("ERR_NOTEXTTOSEND", Srv, << S.cl[c].Nickname >>))
    ELSE LET to == message.Params[1]
             ch == GetChannel(S, to)
             target == GetClientByNick(S, to)
         IN  IF ch # NoChan THEN Notice(S, ch, c, message.Trailing)
             ELSE IF target # NoClient
             THEN Encode(S, target, Msg("NOTICE", c, << S.cl[target].Nickname, message.Trailing >>))
             ELSE Encode(S, c, Msg("ERR_NOSUCHNICK", Srv, << S.cl[c].Nickname >>))

RECURSIVE JoinStrings(_, _)
\* strings.Join
JoinStrings(elems, sep) ==
    IF elems = <<>> THEN <<>>
    ELSE IF Len(elems) = 1 THEN elems[1]
    ELSE elems[1] \o << sep >> \o JoinStrings(Tail(elems), sep)

\* Client.MakeOper: the client gets user mode o, MODE <nick> +o goes to every client the
\* nickname map has under another name, RPL_YOUREOPER to the client
MakeOper(S, c) ==
    IF S.panicked THEN S
    ELSE LET S1 == [S EXCEPT !.cl[c].userModes = @ \cup { UserModeOperator }]
             m == Msg("MODE", Srv, << S.cl[c].Nickname, << "+", "o" >> >>)
             others == { S1.clientsByNick[n] : n \in (DOMAIN S1.clientsByNick) \ { S.cl[c].Nickname } }
         IN  Encode(EncodeAll(S1, others, m), c, Msg("RPL_YOUREOPER", Srv, << S.cl[c].Nickname >>))

\* the operator accounts added to the BasicOperAuthMethod: username -> password
OperAccounts == [u \in { <<"r", "o", "o", "t">> } |-> <<"p">>]

\* BasicOperAuthMethod.Authenticate
Authenticate(S, username, password, c) ==
    IF username \notin DOMAIN OperAccounts \/ OperAccounts[username] # password
    THEN Encode(S, c, Msg("ERR_PASSWDMISMATCH", Srv, << S.cl[c].Nickname >>))
    ELSE MakeOper(S, c)

\* the OPER handler: it hands the two parameters to the OperAuthMethod
OperHandler(S, c, message) ==
    IF Len(message.Params) < 2
    THEN Encode(S, c, Msg("ERR_NEEDMOREPARAMS", Srv, << S.cl[c].Nickname >>))
    ELSE Authenticate(S, message.Params[1], message.Params[2], c)

\* MOTDHandler
MOTDHandler(S, c, message) == MOTD(S, c)

\* TopicHandler
TopicHandler(S, c, message) ==
    IF Len(message.Params) = 0
    THEN Encode(S, c, Msg("ERR_NEEDMOREPARAMS", Srv, << S.cl[c].Nickname >>))
    ELSE LET channelName == message.Params[1]
             channel == GetChannel(S, channelName)
         IN  IF channel = NoChan \/ HasMode(S, channel, ChannelModeSecret)
             THEN Encode(S, c, Msg("ERR_NOSUCHCHANNEL", Srv, << S.cl[c].Nickname, channelName >>))
             ELSE TopicCommand(S, channel, c,
                               IF Len(message.Params) > 1 THEN message.Params[2] ELSE message.Trailing)

\* AwayHandler
AwayHandler(S, c, message) ==
    IF Len(message.Params) = 0 /\ Len(message.Trailing) = 0
    THEN Encode([S EXCEPT !.cl[c].AwayMessage = EmptyStr, !.cl[c].userModes = @ \ {UserModeAway}],
                c, Msg("RPL_UNAWAY", Srv, << S.cl[c].Nickname >>))
    ELSE LET text == IF Len(message.Trailing) > 0 THEN message.Trailing ELSE JoinStrings(message.Params, " ")
         IN  Encode([S EXCEPT !.cl[c].AwayMessage = text, !.cl[c].userModes = @ \cup {UserModeAway}],
                    c, Msg("RPL_NOWAWAY", Srv, << S.cl[c].Nickname >>))

RECURSIVE KickPairs(_, _, _, _, _, _)
\* the loop of KickHandler over as many channels as nicknames, i counting from 1
KickPairs(S, c, chans, nicks, comment, i) ==
    IF S.panicked \/ i > Len(chans) THEN S
    ELSE LET ch == GetChannel(S, chans[i])
             S1 == IF ch # NoChan THEN Kick(S, ch, c, << nicks[i] >>, comment)
                   ELSE Encode(S, c, Msg("ERR_NOSUCHCHANNEL", Srv, << S.cl[c].Nickname, chans[i] >>))
         IN  KickPairs(S1, c, chans, nicks, comment, i + 1)

\* KickHandler: message.Params[1] is read when only the number zero of parameters was excluded
KickHandler(S, c, message) ==
    IF Len(message.Params) = 0
    THEN Encode(S, c, Msg("ERR_NEEDMOREPARAMS", Srv, <<>>))
    ELSE IF Len(message.Params) = 1 THEN Panic(S)
    ELSE LET chans == Split(message.Params[1], ",")
             nicks == Split(message.Params[2], ",")
             comment == IF Len(message.Params) = 3 THEN message.Params[3] ELSE message.Trailing
         IN  IF Len(chans) # 1 /\ Len(chans) # Len(nicks)
             THEN Encode(S, c, Msg("ERR_NEEDMOREPARAMS", Srv, <<>>))
             ELSE IF Len(chans) = 1
             THEN LET ch == GetChannel(S, chans[1])
                  IN  IF ch # NoChan THEN Kick(S, ch, c, nicks, comment)
                      ELSE Encode(S, c, Msg("ERR_NOSUCHCHANNEL", Srv, << S.cl[c].Nickname, chans[1] >>))
             ELSE KickPairs(S, c, chans, nicks, comment, 1)


----------------------------------------------------------------------------
(* MODE on a channel (commands.go, ChannelModeHandler). *)

Digits == { "0", "1", "2", "3", "4", "5", "6", "7", "8", "9" }

DigitValue(d) ==
    CASE d = "0" -> 0 [] d = "1" -> 1 [] d = "2" -> 2 [] d = "3" -> 3 [] d = "4" -> 4
      [] d = "5" -> 5 [] d = "6" -> 6 [] d = "7" -> 7 [] d = "8" -> 8 [] d = "9" -> 9

RECURSIVE DecimalValue(_, _)
\* the value of a string of digits, acc being the value of the digits read so far
DecimalValue(s, acc) ==
    IF s = <<>> THEN acc ELSE DecimalValue(Tail(s), 10 * acc + DigitValue(Head(s)))

\* strconv.Atoi succeeds: an optional sign, then one digit or more
AtoiOk(s) ==
    LET body == IF s # <<>> /\ Head(s) \in { "+", "-" } THEN Tail(s) ELSE s
    IN  body # <<>> /\ \A i \in 1..Len(body) : body[i] \in Digits

\* strconv.Atoi, where it succeeds
Atoi(s) ==
    IF Head(s) = "-" THEN 0 - DecimalValue(Tail(s), 0)
    ELSE IF Head(s) = "+" THEN DecimalValue(Tail(s), 0)
    ELSE DecimalValue(s, 0)

\* the index of the first ch in s, 0 when there is none (the library's indexByte, plus one)
IndexOf(s, ch) ==
    IF \E i \in 1..Len(s) : s[i] = ch
    THEN CHOOSE i \in 1..Len(s) : s[i] = ch /\ \A j \in 1..(i - 1) : s[j] # ch
    ELSE 0

\* fillMask of ChannelModeHandler: irc.ParsePrefix splits nick!user@host, an empty part
\* becomes "*", and Prefix.String joins the three again
FillMask(raw) ==
    LET user == IndexOf(raw, "!")
        host == IndexOf(raw, "@")
        parsed == IF user > 1 /\ host > user
                  THEN << SubSeq(raw, 1, user - 1), SubSeq(raw, user + 1, host - 1), SubSeq(raw, host + 1, Len(raw)) >>
                  ELSE IF user > 1
                  THEN << SubSeq(raw, 1, user - 1), SubSeq(raw, user + 1, Len(raw)), <<>> >>
                  ELSE IF host > 1
                  THEN << SubSeq(raw, 1, host - 1), <<>>, SubSeq(raw, host + 1, Len(raw)) >>
                  ELSE << raw, <<>>, <<>> >>
        star(x) == IF Len(x) = 0 THEN <<"*">> ELSE x
    IN  star(parsed[1]) \o <<"!">> \o star(parsed[2]) \o <<"@">> \o star(parsed[3])

\* ChannelModeSet.GetBanMasks, GetExceptionMasks, GetInvitationMasks: the masks of a list flag
GetMasks(S, h, flag) ==
    IF flag \in DOMAIN S.chan[h].modes THEN S.chan[h].modes[flag] ELSE {}

\* ChannelModeSet.AddBanMask, AddExceptionMask, AddInvitationMask
AddMask(S, h, flag, mask) ==
    IF S.panicked THEN S
    ELSE [S EXCEPT !.chan[h].modes = SetAddModeWithValue(@, flag, GetMasks(S, h, flag) \cup {mask})]

\* a fullFlag of ChannelModeHandler
FullFlag(modifier, flag, param) == [ModeModifier |-> modifier, ChannelMode |-> flag, Param |-> param]

ArgFlags == { ChannelModeVoice, ChannelModeOperator, ChannelModeExceptionMask,
              ChannelModeInvitationMask, ChannelModeBan, ChannelModeLimit }
PlainFlags == { ChannelModeAnonymous, ChannelModeInviteOnly, ChannelModeModerated,
                ChannelModeNoOutsideMessages, ChannelModePrivate, ChannelModeSecret,
                ChannelModeQuiet, ChannelModeReOp, ChannelModeTopic }
ListFlags == { ChannelModeBan, ChannelModeExceptionMask, ChannelModeInvitationMask }

\* what the loop over message.Params[1:] carries from one parameter to the next
ModeLoop(S, needsArgs, changes, argsCount, stopped) ==
    [S |-> S, needsArgs |-> needsArgs, changes |-> changes, argsCount |-> argsCount, stopped |-> stopped]

\* the parameter is the argument of the flag that waits first (lines 547-631)
ModeArg(M, h, c, param) ==
    LET S == M.S
        mode == [M.needsArgs[1] EXCEPT !.Param = param]
        rest == Tail(M.needsArgs)
        count == M.argsCount + 1
        flag == mode.ChannelMode
        keep(S1, changed) == ModeLoop(S1, rest, IF changed THEN Append(M.changes, mode) ELSE M.changes, count, FALSE)
    IN  IF count > 3 THEN ModeLoop(S, <<>>, M.changes, count, TRUE)
        ELSE IF flag \in { ChannelModeOperator, ChannelModeVoice }
        THEN LET n == GetClientByNick(S, param)
             IN  IF n = NoClient THEN keep(S, FALSE)
                 ELSE IF MemberHasModePanics(S, h, c) THEN keep(Panic(S), FALSE)
                 ELSE LET found == MemberHasMode(S, h, c, flag)
                      IN  IF mode.ModeModifier = ModeModifierAdd
                          THEN keep(AddMemberMode(S, h, n, flag), ~found)
                          ELSE keep(RemoveMemberMode(S, h, n, flag), found)
        ELSE IF flag = ChannelModeLimit
        THEN IF AtoiOk(param) THEN keep(SetLimit(S, h, Atoi(param)), TRUE) ELSE keep(S, FALSE)
        ELSE IF flag = ChannelModeKey
        THEN keep(SetKey(S, h, param), TRUE)
        ELSE \* ban, exception and invitation masks
             LET mask == FillMask(param)
             IN  IF mask \in GetMasks(S, h, flag) THEN keep(S, FALSE)
                 ELSE ModeLoop(AddMask(S, h, flag, mask), rest,
                               Append(M.changes, [mode EXCEPT !.Param = mask]), count, FALSE)

\* the reads of lines 653-683 as a plausible slip would have them: the switch on the
\* first character of the channel name is left out, so a goes on every channel
PlainFlagReadsAnyChannel(S, h, modifier, flag) ==
    LET found == HasMode(S, h, flag)
    IN  IF modifier = ModeModifierAdd
        THEN IF found THEN "none"
             ELSE IF flag = ChannelModePrivate /\ HasMode(S, h, ChannelModeSecret) THEN "none"
             ELSE IF flag = ChannelModeSecret /\ HasMode(S, h, ChannelModePrivate) THEN "swap"
             ELSE "add"
        ELSE IF found THEN "remove" ELSE "none"

\* a flag that takes no argument, under the modifier read last: what lines 653-683 read
\* of the channel decides what lines 658-688 write
PlainFlagReads(S, h, modifier, flag) ==
    LET name == S.chan[h].Name
        found == HasMode(S, h, flag)
    IN  IF flag = ChannelModeAnonymous /\ Len(name) = 0 THEN "panic"
        ELSE IF flag = ChannelModeAnonymous /\ name[1] \in { "#", "+" } THEN "unknown"
        ELSE IF flag = ChannelModeAnonymous /\ name[1] = "!" /\ modifier = ModeModifierRemove THEN "unknown"
        ELSE IF modifier = ModeModifierAdd
        THEN IF found THEN "none"
             ELSE IF flag = ChannelModePrivate /\ HasMode(S, h, ChannelModeSecret) THEN "none"
             ELSE IF flag = ChannelModeSecret /\ HasMode(S, h, ChannelModePrivate) THEN "swap"
             ELSE "add"
        ELSE IF found THEN "remove" ELSE "none"

\* the writes of lines 658-688 that follow the decision
PlainFlagWrites(M, h, c, modifier, flag, decision) ==
    LET S == M.S
        changed(S1) == ModeLoop(S1, M.needsArgs, Append(M.changes, FullFlag(modifier, flag, EmptyStr)),
                                M.argsCount, FALSE)
    IN  CASE decision = "panic" -> [M EXCEPT !.S = Panic(S)]
          [] decision = "unknown" ->
                [M EXCEPT !.S = Encode(S, c, Msg("ERR_UNKNOWNMODE", Srv, << S.cl[c].Nickname, << flag >> >>))]
          [] decision = "swap" -> changed(AddMode(RemoveMode(S, h, ChannelModePrivate), h, flag))
          [] decision = "add" -> changed(AddMode(S, h, flag))
          [] decision = "remove" -> changed(RemoveMode(S, h, flag))
          [] OTHER -> M

\* a flag that takes no argument (lines 653-691)
PlainFlag(M, h, c, modifier, flag) ==
    PlainFlagWrites(M, h, c, modifier, flag, PlainFlagReads(M.S, h, modifier, flag))

RECURSIVE ModeFlags(_, _, _, _, _)
\* the parameter is a series of flags (lines 632-697): the loop over its characters
ModeFlags(M, h, c, chars, modifier) ==
    IF M.S.panicked \/ chars = <<>> THEN M
    ELSE LET char == Head(chars)
             wait(m2) == [M EXCEPT !.needsArgs = Append(@, FullFlag(m2, char, EmptyStr))]
         IN  IF char = ModeModifierAdd THEN ModeFlags(M, h, c, Tail(chars), ModeModifierAdd)
             ELSE IF char = ModeModifierRemove THEN ModeFlags(M, h, c, Tail(chars), ModeModifierRemove)
             ELSE IF char \in ArgFlags THEN ModeFlags(wait(modifier), h, c, Tail(chars), modifier)
             ELSE IF char = ChannelModeKey
             THEN ModeFlags(IF modifier = ModeModifierAdd THEN wait(modifier) ELSE M, h, c, Tail(chars), modifier)
             ELSE IF char \in PlainFlags
             THEN ModeFlags(PlainFlag(M, h, c, modifier, char), h, c, Tail(chars), modifier)
             ELSE ModeFlags([M EXCEPT !.S = Encode(M.S, c, Msg("ERR_UNKNOWNMODE", Srv, << M.S.cl[c].Nickname, << char >> >>))],
                            h, c, Tail(chars), modifier)

RECURSIVE ModeParams(_, _, _, _)
\* the loop over message.Params[1:]
ModeParams(M, h, c, params) ==
    IF M.S.panicked \/ M.stopped \/ params = <<>> THEN M
    ELSE IF Len(M.needsArgs) # 0
         THEN ModeParams(ModeArg(M, h, c, Head(params)), h, c, Tail(params))
         ELSE ModeParams(ModeFlags(M, h, c, Head(params), ModeModifierAdd), h, c, Tail(params))

RECURSIVE EncodeMasks(_, _, _, _)
\* one list reply for each mask of the set
EncodeMasks(S, c, m, masks) ==
    IF masks = {} THEN S
    ELSE LET mask == CHOOSE x \in masks : TRUE
         IN  EncodeMasks(Encode(S, c, [m EXCEPT !.args = Append(@, mask)]), c, m, masks \ {mask})

\* the reply to a MODE that changed nothing and left a list flag waiting (lines 701-753)
ModeListQuery(S, h, c, arg) ==
    LET flag == arg.ChannelMode
        head == << S.cl[c].Nickname, S.chan[h].Name >>
        reply == IF flag = ChannelModeBan THEN << "RPL_BANLIST", "RPL_ENDOFBANLIST" >>
                 ELSE IF flag = ChannelModeExceptionMask THEN << "RPL_EXCEPTLIST", "RPL_ENDOFEXCEPTLIST" >>
                 ELSE << "RPL_INVITELIST", "RPL_ENDOFINVITELIST" >>
    IN  IF flag \notin ListFlags THEN S
        ELSE Encode(EncodeMasks(S, c, Msg(reply[1], Srv, head), GetMasks(S, h, flag)),
                    c, Msg(reply[2], Srv, head))

RECURSIVE ChangeString(_, _)
\* the compacted flags of the MODE broadcast (lines 755-767): a sign is written where
\* the modifier differs from that of the change before
ChangeString(changes, previousMode) ==
    IF changes = <<>> THEN <<>>
    ELSE LET change == Head(changes)
         IN  (IF change.ModeModifier # previousMode THEN << change.ModeModifier >> ELSE <<>>)
             \o << change.ChannelMode >> \o ChangeString(Tail(changes), change.ModeModifier)

\* the parameters of the MODE broadcast: those of the changes that have one
ParamsChanged(changes) ==
    LET F[i \in 0..Len(changes)] ==
            IF i = 0 THEN <<>>
            ELSE IF Len(changes[i].Param) # 0 THEN Append(F[i - 1], changes[i].Param) ELSE F[i - 1]
    IN  F[Len(changes)]

\* ChannelModeHandler after its loop (lines 699-775): the list reply when nothing
\* changed, the MODE broadcast otherwise
ModeFinish(M, h, c) ==
    IF Len(M.changes) = 0
    THEN IF Len(M.needsArgs) # 0 THEN ModeListQuery(M.S, h, c, M.needsArgs[1]) ELSE M.S
    ELSE SendMessage(M.S, h, Msg("MODE", c, << M.S.chan[h].Name, ChangeString(M.changes, " ") >>
                                             \o ParamsChanged(M.changes)))

\* ChannelModeHandler
ChannelModeHandler(S, c, message) ==
    IF Len(message.Params) = 0
    THEN Encode(S, c, Msg("ERR_NEEDMOREPARAMS", Srv, <<>>))
    ELSE LET h == GetChannel(S, message.Params[1])
         IN  IF h = NoChan THEN Encode(S, c, Msg("ERR_NOSUCHCHANNEL", Srv, <<>>))
             ELSE IF Len(message.Params) = 1
             THEN Encode(S, c, Msg("RPL_CHANNELMODEIS", Srv, << S.cl[c].Nickname, S.chan[h].Name,
                                                              ModeSetString(S.chan[h].modes, S.iter) >>))
             ELSE IF MemberHasModePanics(S, h, c) THEN Panic(S)
             ELSE IF ~MemberHasMode(S, h, c, ChannelModeOperator)
             THEN Encode(S, c, Msg("ERR_CHANOPRIVSNEEDED", Srv, << S.cl[c].Nickname, S.chan[h].Name >>))
             ELSE ModeFinish(ModeParams(ModeLoop(S, <<>>, <<>>, 0, FALSE), h, c, Tail(message.Params)), h, c)


----------------------------------------------------------------------------
(* MODE on a user, and the dispatch (commands.go). *)

RECURSIVE UserFlags(_, _, _, _)
\* the loop of UserModeHandler over the flags of one parameter; the result says
\* whether the handler returned inside it
UserFlags(S, c, modifier, flags) ==
    IF flags = <<>> THEN [S |-> S, returned |-> FALSE]
    ELSE LET mode == Head(flags)
         IN  IF mode \notin UserModes \/ mode = UserModeAway
             THEN [S |-> Encode(S, c, Msg("ERR_UMODEUNKNOWNFLAG", Srv, << S.cl[c].Nickname >>)), returned |-> TRUE]
             ELSE IF modifier = ModeModifierAdd
             THEN UserFlags(IF mode \in { UserModeOperator, UserModeLocalOperator } THEN S
                            ELSE [S EXCEPT !.cl[c].userModes = @ \cup {mode}], c, modifier, Tail(flags))
             ELSE UserFlags(IF mode = UserModeRestricted THEN S
                            ELSE [S EXCEPT !.cl[c].userModes = @ \ {mode}], c, modifier, Tail(flags))

RECURSIVE UserModeParams(_, _, _)
\* the loop of UserModeHandler over message.Params[1:]; modeFlags[0] of an empty
\* parameter is an index out of range
UserModeParams(S, c, params) ==
    IF params = <<>>
    THEN Encode(S, c, Msg("RPL_UMODEIS", Srv, << S.cl[c].Nickname >>))
    ELSE LET modeFlags == Head(params)
         IN  IF Len(modeFlags) = 0 THEN Panic(S)
             ELSE IF modeFlags[1] \notin { ModeModifierAdd, ModeModifierRemove }
             THEN Encode(S, c, Msg("ERR_UMODEUNKNOWNFLAG", Srv, << S.cl[c].Nickname >>))
             ELSE LET R == UserFlags(S, c, modeFlags[1], Tail(modeFlags))
                  IN  IF R.returned THEN R.S ELSE UserModeParams(R.S, c, Tail(params))

\* UserModeHandler without the comparison of the target with the sender's nickname
UserModeHandlerAnyTarget(S, c, message) ==
    IF Len(message.Params) = 0
    THEN Encode(S, c, Msg("ERR_NEEDMOREPARAMS", Srv, << S.cl[c].Nickname >>))
    ELSE UserModeParams(S, c, Tail(message.Params))

\* UserModeHandler
UserModeHandler(S, c, message) ==
    IF Len(message.Params) = 0
    THEN Encode(S, c, Msg("ERR_NEEDMOREPARAMS", Srv, << S.cl[c].Nickname >>))
    ELSE IF message.Params[1] # S.cl[c].Nickname
    THEN Encode(S, c, Msg("ERR_USERSDONTMATCH", Srv, << S.cl[c].Nickname >>))
    ELSE UserModeParams(S, c, Tail(message.Params))

\* ModeHandler
ModeHandler(S, c, message) ==
    IF Len(message.Params) = 0
    THEN Encode(S, c, Msg("ERR_NEEDMOREPARAMS", Srv, << S.cl[c].Nickname >>))
    ELSE IF GetChannel(S, message.Params[1]) # NoChan THEN ChannelModeHandler(S, c, message)
    ELSE UserModeHandler(S, c, message)

\* CommandsMux.ServeIRC: the handler registered for the command, ERR_UNKNOWNCOMMAND
\* when there is none.  ord is the order in which the handler's range over the client's
\* channel map visits it.
ServeIRC(S, c, message, ord) ==
    CASE message.Command = "PING" -> PingHandler(S, c, message)
      [] message.Command = "PONG" -> PongHandler(S, c, message)
      [] message.Command = "QUIT" -> QuitHandler(S, c, message, ord)
      [] message.Command = "PASS" -> PassHandler(S, c, message)
      [] message.Command = "NICK" -> NickHandler(S, c, message, ord)
      [] message.Command = "USER" -> UserHandler(S, c, message)
      [] message.Command = "JOIN" -> JoinHandler(S, c, message, ord)
      [] message.Command = "PART" -> PartHandler(S, c, message)
      [] message.Command = "PRIVMSG" -> PrivMsgHandler(S, c, message)
      [] message.Command = "NOTICE" -> NoticeHandler(S, c, message)
      [] message.Command = "AWAY" -> AwayHandler(S, c, message)
      [] message.Command = "TOPIC" -> TopicHandler(S, c, message)
      [] message.Command = "MOTD" -> MOTDHandler(S, c, message)
      [] message.Command = "OPER" -> OperHandler(S, c, message)
      [] message.Command = "MODE" -> ModeHandler(S, c, message)
      [] message.Command = "KICK" -> KickHandler(S, c, message)
      [] OTHER -> Encode(S, c, Msg("ERR_UNKNOWNCOMMAND", Srv, << S.cl[c].Nickname >>))

----------------------------------------------------------------------------
(* The steps of the system. *)

\* a Client no task can reach any more: its connection is closed and no timer of it is armed
Gone(S, c) == S.cl[c].conn = "closed" /\ S.cl[c].idleTimer = "none" /\ ~S.cl[c].quitTimer

\* the Channel objects some task can still reach
Reachable(S) ==
    { S.channels[n] : n \in DOMAIN S.channels } \cup S.held
    \cup UNION { { S.cl[c].channels[n] : n \in DOMAIN S.cl[c].channels } : c \in { x \in Clients : ~Gone(S, x) } }

\* the garbage collector: objects no task can reach are dropped from the heap
Collect(S) ==
    [S EXCEPT !.chan = [h \in (DOMAIN S.chan) \cap Reachable(S) |-> S.chan[h]],
              !.cl = [c \in Clients |-> IF Gone(S, c) THEN [S.cl[c] EXCEPT !.channels = EmptyMap] ELSE S.cl[c]]]

\* the variables take the values of the server state S
Commit(S) ==
    LET G == Collect(S)
    IN  /\ clients' = G.clients
        /\ clientsByNick' = G.clientsByNick
        /\ channels' = G.channels
        /\ chan' = G.chan
        /\ cl' = G.cl
        /\ sent' = G.sent
        /\ panicked' = G.panicked
        /\ config' = config
        /\ wire' = G.wire
        /\ locks' = G.locks

Fresh == [St EXCEPT !.sent = NoneSent]

\* where a handler that runs in several steps stands: at "idle" none is in flight; at
\* "nick" NickHandler has looked the nickname up (found); at "mode" ChannelModeHandler
\* has read what decides the writes of flag on Channel h
NotRunning == [ at |-> "idle", nick |-> EmptyStr, found |-> FALSE, h |-> NoChan,
                modifier |-> ModeModifierAdd, flag |-> ChannelModePrivate, decision |-> "none",
                name |-> EmptyStr ]

Idle == [c \in Clients |-> NotRunning]

\* Server.Start accepts a connection: newClient arms the idle timer with Client.quit,
\* and handleIncoming enters the client in the address map
Accept(c) ==
    /\ ~panicked
    /\ cl[c].conn = "new"
    /\ \A d \in Clients : d < c => cl[d].conn # "new"
    /\ Commit(AddClient([Fresh EXCEPT !.cl[c].conn = "open", !.cl[c].idleTimer = "quit"], c))
    /\ last' = [client |-> c, cmd |-> "accept"]
    /\ UNCHANGED pc

\* the orders in which ChannelModeSet.String may visit the mode map when the message is
\* the MODE query of a channel
IterOrders(message) ==
    IF message.Command = "MODE" /\ Len(message.Params) = 1 /\ message.Params[1] \in DOMAIN channels
    THEN Orders(DOMAIN chan[channels[message.Params[1]]].modes \cap StringFlags)
    ELSE { <<>> }

\* Client.handleIncoming, one round of its loop: a message is decoded, the idle timer is
\* stopped and armed again (with Client.quit for a client that is not registered), the
\* quit timer is stopped, and the message is served
Incoming(c, message) ==
    /\ ~panicked
    /\ cl[c].conn = "open"
    /\ pc[c].at = "idle"
    /\ \E ord \in Orders(DOMAIN cl[c].channels), iter \in IterOrders(message) :
          LET S1 == [Fresh EXCEPT !.cl[c].idleTimer = IF cl[c].Registered THEN "idle" ELSE "quit",
                                  !.cl[c].quitTimer = FALSE, !.iter = iter]
              S2 == ServeIRC(S1, c, message, ord)
          IN  ~S2.full /\ Commit(S2)
    /\ last' = [client |-> c, cmd |-> message.Command]
    /\ UNCHANGED pc

\* the peer closes the connection: Decode returns io.EOF and handleIncoming returns.
\* Nothing else runs: the Close that Server.Start defers is deferred inside its endless
\* accept loop, so it waits for a return of Start that never comes.  The connection is
\* at "eof": no reader is left and writes to it fail, while the timers stay armed.
Disconnect(c) ==
    /\ ~panicked
    /\ cl[c].conn = "open"
    /\ pc[c].at = "idle"
    /\ Commit([Fresh EXCEPT !.cl[c].conn = "eof"])
    /\ last' = [client |-> c, cmd |-> "EOF"]
    /\ UNCHANGED pc

\* the idle timer fires: Client.idle for a registered client, Client.quit for the others
IdleTimerFires(c) ==
    /\ ~panicked
    /\ cl[c].idleTimer # "none"
    /\ \E ord \in Orders(DOMAIN cl[c].channels) :
          LET S1 == [Fresh EXCEPT !.cl[c].idleTimer = "none"]
          IN  Commit(IF cl[c].idleTimer = "idle" THEN ClientIdle(S1, c) ELSE ClientQuitTimer(S1, c, ord))
    /\ last' = [client |-> c, cmd |-> "idleTimer"]
    /\ UNCHANGED pc

\* the quit timer fires: Client.quit
QuitTimerFires(c) ==
    /\ ~panicked
    /\ cl[c].quitTimer
    /\ \E ord \in Orders(DOMAIN cl[c].channels) :
          Commit(ClientQuitTimer([Fresh EXCEPT !.cl[c].quitTimer = FALSE], c, ord))
    /\ last' = [client |-> c, cmd |-> "quitTimer"]
    /\ UNCHANGED pc


----------------------------------------------------------------------------
(* Handlers that other tasks interleave with: every client has its own reader task
   (server.go, Start), and a handler takes each lock for one call only. *)

\* handleIncoming up to the handler (part_000 lines 89-101): the timers are armed anew
Rearmed(c) ==
    [Fresh EXCEPT !.cl[c].idleTimer = IF cl[c].Registered THEN "idle" ELSE "quit", !.cl[c].quitTimer = FALSE]

\* NickHandler up to the lookup of line 94
NickLookup(c) ==
    /\ ~panicked
    /\ cl[c].conn = "open"
    /\ pc[c].at = "idle"
    /\ \E n \in Nicks :
          LET S1 == Rearmed(c)
          IN  /\ Commit(S1)
              /\ pc' = [pc EXCEPT ![c] = [NotRunning EXCEPT !.at = "nick", !.nick = n,
                                                           !.found = (GetClientByNick(S1, n) # NoClient)]]
    /\ last' = [client |-> c, cmd |-> "NICK"]

\* NickHandler from line 96 on, with what the lookup returned
NickCommit(c) ==
    /\ ~panicked
    /\ pc[c].at = "nick"
    /\ \E ord \in Orders(DOMAIN cl[c].channels) :
          Commit(NickSwitch(Fresh, c, pc[c].nick, pc[c].found, ord))
    /\ pc' = [pc EXCEPT ![c] = NotRunning]
    /\ last' = [client |-> c, cmd |-> "NICK"]

\* JoinHandler for JOIN <channel> up to the GetChannel of line 184
JoinLookup(c, names) ==
    /\ ~panicked
    /\ cl[c].conn = "open"
    /\ pc[c].at = "idle"
    /\ \E n \in names :
          LET S1 == Rearmed(c)
              h == GetChannel(S1, n)
          IN  /\ Commit([S1 EXCEPT !.held = @ \cup ({h} \ {NoChan})])
              /\ pc' = [pc EXCEPT ![c] = [NotRunning EXCEPT !.at = "join", !.name = n, !.h = h]]
    /\ last' = [client |-> c, cmd |-> "JOIN"]

\* the Channel objects a handler that found no channel can allocate: one more than the
\* directory can list, for the handler that loses the race
RaceChans(S) == (1..(MaxChans + 1)) \ DOMAIN S.chan

\* JoinHandler from line 185 on, with what GetChannel returned: a new Channel is made
\* and added to the directory when it returned none, then Channel.Join
JoinCommit(c) ==
    /\ ~panicked
    /\ pc[c].at = "join"
    /\ LET S == Fresh
           h == IF pc[c].h # NoChan THEN pc[c].h
                ELSE CHOOSE x \in RaceChans(S) : \A y \in RaceChans(S) : x <= y
           S1 == IF pc[c].h # NoChan THEN S
                 ELSE ServerAddChannel([S EXCEPT !.chan = MapPut(@, h, NewChannel(pc[c].name, EmptyStr))], h)
       IN  /\ (pc[c].h = NoChan => RaceChans(S) # {})
           /\ Commit(Join([S1 EXCEPT !.held = @ \ {pc[c].h}], h, c, EmptyStr))
    /\ pc' = [pc EXCEPT ![c] = NotRunning]
    /\ last' = [client |-> c, cmd |-> "JOIN"]

\* ChannelModeHandler for MODE <channel> <sign><flag> with a flag that takes no argument,
\* sent by an operator of the channel, up to the reads of lines 653-683
ModeCheck(c, names) ==
    /\ ~panicked
    /\ cl[c].conn = "open"
    /\ pc[c].at = "idle"
    /\ \E n \in names, modifier \in { ModeModifierAdd, ModeModifierRemove },
          flag \in { ChannelModePrivate, ChannelModeSecret } :
          LET S1 == Rearmed(c)
              h == GetChannel(S1, n)
          IN  /\ h # NoChan
              /\ ~MemberHasModePanics(S1, h, c)
              /\ MemberHasMode(S1, h, c, ChannelModeOperator)
              /\ Commit([S1 EXCEPT !.held = @ \cup {h}])
              /\ pc' = [pc EXCEPT ![c] = [NotRunning EXCEPT !.at = "mode", !.h = h, !.modifier = modifier,
                                              !.flag = flag,
                                              !.decision = PlainFlagReads(S1, h, modifier, flag)]]
    /\ last' = [client |-> c, cmd |-> "MODE"]

\* ChannelModeHandler from the writes of lines 658-688 to its end
ModeApply(c) ==
    /\ ~panicked
    /\ pc[c].at = "mode"
    /\ LET h == pc[c].h
           M == PlainFlagWrites(ModeLoop(Fresh, <<>>, <<>>, 0, FALSE), h, c, pc[c].modifier, pc[c].flag,
                                pc[c].decision)
           S2 == ModeFinish(M, h, c)
       IN  Commit([S2 EXCEPT !.held = { pc[d].h : d \in Clients \ {c} } \ { NoChan }])
    /\ pc' = [pc EXCEPT ![c] = NotRunning]
    /\ last' = [client |-> c, cmd |-> "MODE"]

----------------------------------------------------------------------------
(* The path of a PRIVMSG or NOTICE from the sender's connection to the connections of
   its recipients, with the traffic recorded in wire. *)

\* messages a client submits in a run
MaxMsgs == 2

\* a reader task that decodes the next line while handlers of earlier lines still run
ReadsNextWhileServing(c) == TRUE

\* handleIncoming calls ServeIRC and decodes the next line when the call has returned
ReadsNext(c) == pc[c].at = "idle"

\* the connection streams after the writes of one handler: Encode appends to the stream
\* of the connection; wire.log keeps the PRIVMSG and NOTICE messages, with their sender
Written(log, out) ==
    [d \in Clients |->
        LET kept == SelectSeq(out[d], LAMBDA m : m.cmd \in { "PRIVMSG", "NOTICE" })
        IN  log[d] \o [i \in 1..Len(kept) |-> [src |-> kept[i].src, text |-> kept[i].args[2]]]]

\* handleIncoming decodes a PRIVMSG or NOTICE whose text is its number among the messages
\* of this client, and arms the timers anew
MsgDecode(c, names) ==
    /\ ~panicked
    /\ cl[c].conn = "open"
    /\ ReadsNext(c)
    /\ wire.next[c] < MaxMsgs
    /\ \E cmd \in { "PRIVMSG", "NOTICE" }, to \in Nicks \cup names :
          LET seq == wire.next[c] + 1
              m == Message3(cmd, << to >>, Itoa(seq))
          IN  /\ Commit([Rearmed(c) EXCEPT !.wire.next[c] = seq, !.wire.flight[c] = @ \cup { m }])
              /\ last' = [client |-> c, cmd |-> cmd]
    /\ pc' = [pc EXCEPT ![c] = [NotRunning EXCEPT !.at = "msg"]]

\* ServeIRC runs the handler of a decoded message to its end
MsgServe(c) ==
    /\ ~panicked
    /\ \E m \in wire.flight[c] :
          LET S2 == ServeIRC(Fresh, c, m, <<>>)
              rest == wire.flight[c] \ { m }
          IN  /\ Commit([S2 EXCEPT !.wire.flight[c] = rest, !.wire.log = Written(wire.log, S2.sent)])
              /\ pc' = [pc EXCEPT ![c] = IF rest = {} THEN NotRunning ELSE @]
              /\ last' = [client |-> c, cmd |-> m.Command]

----------------------------------------------------------------------------
(* The messages clients send, and the specifications. *)

Host == <<"h">>
Text == <<"t">>
WrongPassword == <<"x">>
NickLists == Nicks \cup { <<"a", ",", "b">> }
ModeFlagStrings == { <<"+", "p">>, <<"+", "s">>, <<"+", "a">>, <<"-", "a">> }
\* the nickname a client asks for where every client asks for one of its own
OwnNick == [c \in Clients |-> IF c = 1 THEN <<"a">> ELSE <<"b">>]
JoinAll == <<"0">>
CoreNames == { <<"#", "x">> }

Pass(c) == \E pw \in { ServerPassword, WrongPassword } : Incoming(c, Message3("PASS", << pw >>, EmptyStr))

Nick(c, nicks) == \E n \in nicks : Incoming(c, Message3("NICK", << n >>, EmptyStr))

User(c) == Incoming(c, Message3("USER", << UserName, UserName, Host >>, UserName))

JoinCmd(c, names) == \E n \in names : Incoming(c, Message3("JOIN", << n >>, EmptyStr))

PartCmd(c, names) == \E n \in names : Incoming(c, Message3("PART", << n >>, EmptyStr))

QuitCmd(c) == Incoming(c, Message3("QUIT", <<>>, EmptyStr))

KickCmd(c, names) == \E n \in names, ks \in NickLists : Incoming(c, Message3("KICK", << n, ks >>, EmptyStr))

PrivMsg(c, names) == \E to \in Nicks \cup names : Incoming(c, Message3("PRIVMSG", << to >>, Text))

NoticeCmd(c, names) ==
    \E params \in { << to >> : to \in Nicks \cup names } \cup { <<>>, << <<"a">>, <<"b">> >> },
       text \in { Text, EmptyStr } :
          Incoming(c, Message3("NOTICE", params, text))

ModeCmd(c, names) ==
    \/ \E n \in names, f \in ModeFlagStrings : Incoming(c, Message3("MODE", << n, f >>, EmptyStr))
    \/ \E n \in names, to \in Nicks : Incoming(c, Message3("MODE", << n, <<"+", "o">>, to >>, EmptyStr))

\* the keys clients try
Keys == { <<"y">>, <<"z">> }

\* what follows the channel name in the MODE commands about keys, limits and members
ParamModes ==
    { << <<"+", "k">>, k >> : k \in Keys } \cup { << <<"-", "k">>, k >> : k \in Keys }
    \cup { << <<"-", "k">> >>, << <<"+", "l">>, <<"1">> >>, << <<"-", "l">>, <<"1">> >>, << <<"-", "l">> >> }
    \cup { << <<"+", "v">>, n >> : n \in Nicks }
    \cup { << <<"+", "o", "-", "v", "+", "t">>, n, n >> : n \in Nicks }

JoinKeyCmd(c, names) ==
    \E n \in names, params \in { <<>> } \cup { << k >> : k \in Keys } :
        Incoming(c, Message3("JOIN", << n >> \o params, EmptyStr))

ParamModeCmd(c, names) ==
    \E n \in names, params \in { <<>> } \cup ParamModes : Incoming(c, Message3("MODE", << n >> \o params, EmptyStr))

\* NewServer with one of the configurations cfgs: empty maps, no connection accepted yet
InitState(cfgs) ==
    /\ config \in cfgs
    /\ clients = {}
    /\ clientsByNick = EmptyMap
    /\ channels = EmptyMap
    /\ chan = EmptyMap
    /\ cl = [c \in Clients |-> NewClient(config.Password)]
    /\ sent = NoneSent
    /\ last = [client |-> NoClient, cmd |-> "start"]
    /\ pc = Idle
    /\ panicked = FALSE
    /\ wire = NoTraffic
    /\ locks = [ on |-> FALSE, ev |-> <<>> ]

Init == InitState({ [Password |-> pw, MOTD |-> <<"m">>] : pw \in { EmptyStr, ServerPassword } })

\* the server that asks for no password
InitOpen == Init /\ config.Password = EmptyStr

\* registration, channel membership and the idle supervisor, every handler in one step
Next ==
    \E c \in Clients :
        \/ Accept(c)
        \/ Pass(c)
        \/ Nick(c, Nicks)
        \/ User(c)
        \/ JoinCmd(c, CoreNames \cup { JoinAll })
        \/ PartCmd(c, CoreNames)
        \/ QuitCmd(c)
        \/ KickCmd(c, CoreNames)
        \/ IdleTimerFires(c)
        \/ QuitTimerFires(c)

Spec == Init /\ [][Next]_vars

\* registration and the commands that deliver messages, every handler in one step
NextMsg ==
    \E c \in Clients :
        \/ Accept(c)
        \/ Nick(c, Nicks)
        \/ User(c)
        \/ JoinCmd(c, CoreNames)
        \/ PrivMsg(c, CoreNames)
        \/ NoticeCmd(c, CoreNames)

SpecMsg == InitOpen /\ [][NextMsg]_vars

\* registration with the NICK handlers of different clients interleaved
NextNick ==
    \E c \in Clients :
        \/ Accept(c)
        \/ User(c)
        \/ NickLookup(c)
        \/ NickCommit(c)
        \/ JoinCmd(c, CoreNames)
        \/ QuitCmd(c)

SpecNick == InitOpen /\ [][NextNick]_vars

\* channel MODE, in one step and with the handlers of different operators interleaved
NextMode ==
    \E c \in Clients :
        \/ Accept(c)
        \/ Nick(c, { OwnNick[c] })
        \/ User(c)
        \/ JoinCmd(c, ChanNames)
        \/ ModeCmd(c, ChanNames)
        \/ ModeCheck(c, ChanNames)
        \/ ModeApply(c)

SpecMode == InitOpen /\ [][NextMode]_vars

\* keys, limits and member modes of one channel
NextParam ==
    \E c \in Clients :
        \/ Accept(c)
        \/ Nick(c, { OwnNick[c] })
        \/ User(c)
        \/ JoinKeyCmd(c, CoreNames)
        \/ PartCmd(c, CoreNames)
        \/ ParamModeCmd(c, CoreNames)

SpecParam == InitOpen /\ [][NextParam]_vars

\* clients that register, join a channel and fall silent
NextIdle ==
    \E c \in Clients :
        \/ Accept(c)
        \/ Nick(c, { OwnNick[c] })
        \/ User(c)
        \/ JoinCmd(c, CoreNames)
        \/ IdleTimerFires(c)
        \/ QuitTimerFires(c)

\* a timer that is armed fires: the runtime runs the callback once the duration is over
SpecIdle ==
    /\ InitOpen
    /\ [][NextIdle]_vars
    /\ \A c \in Clients : WF_vars(IdleTimerFires(c)) /\ WF_vars(QuitTimerFires(c))

\* clients whose peer closes the connection
NextEof ==
    \E c \in Clients :
        \/ Accept(c)
        \/ Nick(c, { OwnNick[c] })
        \/ User(c)
        \/ JoinCmd(c, CoreNames)
        \/ Disconnect(c)
        \/ IdleTimerFires(c)
        \/ QuitTimerFires(c)

SpecEof == InitOpen /\ [][NextEof]_vars

\* registered clients in a channel that send each other messages, the decoding of a
\* message and its handler being two steps
NextFifo ==
    \E c \in Clients :
        \/ Accept(c)
        \/ Nick(c, { OwnNick[c] })
        \/ User(c)
        \/ JoinCmd(c, CoreNames)
        \/ MsgDecode(c, CoreNames)
        \/ MsgServe(c)

SpecFifo == InitOpen /\ [][NextFifo]_vars

\* commands whose parameters are missing or malformed: JOIN without a parameter, KICK with
\* the channel only, MODE of the own nickname with an empty flag parameter, and PART, NICK
\* and PRIVMSG without a parameter
Malformed(c) ==
    { Message3("JOIN", <<>>, EmptyStr),
      Message3("KICK", << <<"#", "x">> >>, EmptyStr),
      Message3("MODE", << cl[c].Nickname, EmptyStr >>, EmptyStr),
      Message3("PART", <<>>, EmptyStr),
      Message3("NICK", <<>>, EmptyStr),
      Message3("PRIVMSG", <<>>, Text) }

MalformedCmd(c) == \E m \in Malformed(c) : Incoming(c, m)

\* clients that register, join a channel and send malformed commands
NextMalformed ==
    \E c \in Clients :
        \/ Accept(c)
        \/ Nick(c, { OwnNick[c] })
        \/ User(c)
        \/ JoinCmd(c, CoreNames)
        \/ MalformedCmd(c)

SpecMalformed == InitOpen /\ [][NextMalformed]_vars

\* the topics clients set
Topics == { Text, <<"u">> }

TopicCmd(c, names) == \E n \in names, topic \in Topics : Incoming(c, Message3("TOPIC", << n >>, topic))

\* MODE with the flags that bear on TOPIC: t, and s and i among the others
TopicModeCmd(c, names) ==
    \E n \in names, f \in { <<"+", "t">>, <<"-", "t">>, <<"+", "s">>, <<"+", "i">> } :
        Incoming(c, Message3("MODE", << n, f >>, EmptyStr))

\* clients that join a channel, set its modes and set its topic
NextTopic ==
    \E c \in Clients :
        \/ Accept(c)
        \/ Nick(c, { OwnNick[c] })
        \/ User(c)
        \/ JoinCmd(c, CoreNames)
        \/ TopicModeCmd(c, CoreNames)
        \/ TopicCmd(c, CoreNames)

SpecTopic == InitOpen /\ [][NextTopic]_vars

\* the server that asks for no password and has a message of the day or none
InitMotd == InitState({ [Password |-> EmptyStr, MOTD |-> motd] : motd \in { EmptyStr, <<"m">> } })

MotdCmd(c) == Incoming(c, Message3("MOTD", <<>>, EmptyStr))

\* clients that register, join a channel and ask for the message of the day
NextMotd ==
    \E c \in Clients :
        \/ Accept(c)
        \/ Nick(c, { OwnNick[c] })
        \/ User(c)
        \/ JoinCmd(c, CoreNames)
        \/ MotdCmd(c)

SpecMotd == InitMotd /\ [][NextMotd]_vars

\* the flag parameters of the user MODE commands clients send
UserModeStrings ==
    { <<"+", "o">>, <<"+", "O">>, <<"+", "a">>, <<"-", "a">>, <<"+", "r">>, <<"-", "r">> }

UserModeCmd(c) ==
    \E to \in Nicks, f \in UserModeStrings : Incoming(c, Message3("MODE", << to, f >>, EmptyStr))

AwayCmd(c) == \E text \in { Text, EmptyStr } : Incoming(c, Message3("AWAY", <<>>, text))

OperCmd(c) ==
    \E pw \in { <<"p">>, WrongPassword } : Incoming(c, Message3("OPER", << <<"r", "o", "o", "t">>, pw >>, EmptyStr))

\* clients that register, set their user modes and away state, and authenticate as operators
NextUmode ==
    \E c \in Clients :
        \/ Accept(c)
        \/ Nick(c, { OwnNick[c] })
        \/ User(c)
        \/ UserModeCmd(c)
        \/ AwayCmd(c)
        \/ OperCmd(c)

SpecUmode == InitOpen /\ [][NextUmode]_vars

\* a nickname no client starts with
SpareNick == <<"c">>

\* a ban, exception or invitation mask as a client writes it
Mask == <<"n">>

\* what follows the channel name in the MODE commands that set and unset a limit and masks
SignedModes ==
    { << <<"+", "l">>, <<"2">> >>, << <<"-", "l">>, <<"1">> >> }
    \cup { << << sign, f >>, Mask >> : sign \in { "+", "-" }, f \in ListFlags }

SignedModeCmd(c, names) ==
    \E n \in names, params \in SignedModes : Incoming(c, Message3("MODE", << n >> \o params, EmptyStr))

\* clients that register, join a channel and set and unset its limit and its masks
NextSigned ==
    \E c \in Clients :
        \/ Accept(c)
        \/ Nick(c, { OwnNick[c] })
        \/ User(c)
        \/ JoinCmd(c, CoreNames)
        \/ SignedModeCmd(c, CoreNames)

SpecSigned == InitOpen /\ [][NextSigned]_vars

\* clients that register and join, JoinHandler running in two steps
NextJoinRace ==
    \E c \in Clients :
        \/ Accept(c)
        \/ Nick(c, { OwnNick[c] })
        \/ User(c)
        \/ JoinLookup(c, CoreNames)
        \/ JoinCommit(c)

SpecJoinRace == InitOpen /\ [][NextJoinRace]_vars

\* the server that asks for no password, its steps observed for what they lock
InitLocks ==
    /\ config = [Password |-> EmptyStr, MOTD |-> <<"m">>]
    /\ clients = {}
    /\ clientsByNick = EmptyMap
    /\ channels = EmptyMap
    /\ chan = EmptyMap
    /\ cl = [c \in Clients |-> NewClient(config.Password)]
    /\ sent = NoneSent
    /\ last = [client |-> NoClient, cmd |-> "start"]
    /\ pc = Idle
    /\ panicked = FALSE
    /\ wire = NoTraffic
    /\ locks = [ on |-> TRUE, ev |-> <<>> ]

\* clients that register, change nicknames, join, talk, part and quit, and their timers
NextLocks ==
    \E c \in Clients :
        \/ Accept(c)
        \/ Nick(c, { OwnNick[c], SpareNick })
        \/ User(c)
        \/ JoinCmd(c, CoreNames)
        \/ PartCmd(c, CoreNames)
        \/ PrivMsg(c, CoreNames)
        \/ QuitCmd(c)
        \/ IdleTimerFires(c)
        \/ QuitTimerFires(c)

SpecLocks == InitLocks /\ [][NextLocks]_vars

\* clients that join a channel and change their nicknames, with a nickname to spare
NextRename ==
    \E c \in Clients :
        \/ Accept(c)
        \/ Nick(c, Nicks \cup { SpareNick })
        \/ User(c)
        \/ JoinCmd(c, CoreNames)

SpecRename == InitOpen /\ [][NextRename]_vars

----------------------------------------------------------------------------
(* The properties of the specification, each stated over the model. *)

Open(c) == cl[c].conn = "open"

\* the Channels the directory maps a name to
Listed == { channels[n] : n \in DOMAIN channels }

\* the Channels of the client's own channel map
Joined(c) == { cl[c].channels[n] : n \in DOMAIN cl[c].channels }

\* the commands of the messages written to client c, given what was sent
Got(out, c) == { out[c][i].cmd : i \in 1..Len(out[c]) }

\* C1: no two connected clients hold the same nickname, whichever order each of them sent
\* NICK and USER in.  Stated for the clients that completed both: two registered connected
\* clients never have the same Nickname.
C1_NickUnique ==
    ~panicked =>
        \A c, d \in Clients :
            (c # d /\ Open(c) /\ Open(d) /\ cl[c].Registered /\ cl[d].Registered)
                => cl[c].Nickname # cl[d].Nickname

\* C2: when the NICK handlers of two clients interleave between lookup and insert, the
\* one that comes second to the directory leaves it unchanged and is answered
\* ERR_NICKNAMEINUSE: the handler of a client whose USER was accepted, resuming after its
\* lookup when the directory maps the nickname to a different client, changes no
\* directory entry and sends ERR_NICKNAMEINUSE.
C2_NickRace ==
    [][\A c \in Clients :
          (/\ NickCommit(c)
           /\ Len(cl[c].Username) # 0
           /\ pc[c].nick \in DOMAIN clientsByNick
           /\ clientsByNick[pc[c].nick] # c)
              => (clientsByNick' = clientsByNick /\ "ERR_NICKNAMEINUSE" \in Got(sent', c))]_vars

\* C3: a registered connected client is the one the directory returns for its nickname,
\* and its nickname is a member of every channel of its channel map.
C3_RegisteredInDirectory ==
    ~panicked =>
        \A c \in Clients :
            (Open(c) /\ cl[c].Registered)
                => /\ GetClientByNick(St, cl[c].Nickname) = c
                   /\ \A h \in Joined(c) : cl[c].Nickname \in DOMAIN chan[h].members

\* C4: every channel the directory lists has at least one member, after every JOIN, PART,
\* QUIT, KICK and timer disconnect.
C4_NoEmptyChannel == \A h \in Listed : GetMemberCount(St, h) >= 1

\* C4 happens: a PART that was broadcast to the parting client left the channel without
\* members, and the directory no longer lists the name
C4_ChannelEmptied ==
    /\ ~panicked
    /\ last.cmd = "PART"
    /\ \E i \in 1..Len(sent[last.client]) :
          /\ sent[last.client][i].cmd = "PART"
          /\ sent[last.client][i].src = last.client
          /\ GetChannel(St, sent[last.client][i].args[1]) = NoChan

\* C5: membership is symmetric after every command: the nickname of a connected client is
\* a key of a channel's members exactly if the channel is in that client's channel map.
C5_MembershipSymmetric ==
    ~panicked =>
        \A c \in Clients :
            (Open(c) /\ Len(cl[c].Nickname) # 0)
                => \A h \in Listed \cup Joined(c) :
                      (cl[c].Nickname \in DOMAIN chan[h].members) <=> (h \in Joined(c))

\* C6: JOIN, PRIVMSG or NOTICE of a client that is not registered delivers no message to
\* any other client.
C6_UnregisteredInert ==
    (~panicked /\ last.cmd \in { "JOIN", "PRIVMSG", "NOTICE" } /\ ~cl[last.client].Registered)
        => \A d \in Clients \ { last.client } : sent[d] = <<>>

\* C7: the server sends no reply to the sender of a NOTICE, whatever is wrong with it.
C7_NoticeSilent ==
    (~panicked /\ last.cmd = "NOTICE")
        => \A i \in 1..Len(sent[last.client]) : sent[last.client][i].src # Srv

\* C8: when a JOIN has put a new channel name in the directory, the client that sent it is
\* a member of that channel and holds member mode o.
C8_CreatorIsOperator ==
    [][\A n \in (DOMAIN channels') \ (DOMAIN channels) :
          LET members == chan'[channels'[n]].members
              nick == cl'[last'.client].Nickname
          IN  /\ last'.cmd = "JOIN"
              /\ nick \in DOMAIN members
              /\ SetHasMode(members[nick], ChannelModeOperator)]_vars

\* C8 happens: the JOIN just served was broadcast to its sender, who is the only member of
\* a listed channel and holds o on it
C8_ChannelCreated ==
    /\ ~panicked
    /\ last.cmd = "JOIN"
    /\ "JOIN" \in Got(sent, last.client)
    /\ \E h \in Listed :
          /\ DOMAIN chan[h].members = { cl[last.client].Nickname }
          /\ MemberHasMode(St, h, last.client, ChannelModeOperator)

\* C9: no channel has both p and s, under every interleaving of the MODE commands of
\* channel operators.
C9_PrivateSecretExclusive ==
    ~panicked => \A h \in Listed : ~(HasMode(St, h, ChannelModePrivate) /\ HasMode(St, h, ChannelModeSecret))

\* C10 as the specification states it: a channel has the flag a only if its name starts
\* with "!".
C10_AnonymousOnlyBang ==
    \A h \in Listed : HasMode(St, h, ChannelModeAnonymous) => chan[h].Name[1] = "!"

\* the client is an operator of the channel the directory lists under the name
OperatorOf(c, n) ==
    /\ GetChannel(St, n) # NoChan
    /\ ~MemberHasModePanics(St, GetChannel(St, n), c)
    /\ MemberHasMode(St, GetChannel(St, n), c, ChannelModeOperator)

\* the step is the handling of MODE <n> <sign>a sent by c, an operator of the channel
AnonymousMode(c, n, sign) ==
    /\ OperatorOf(c, n)
    /\ Incoming(c, Message3("MODE", << n, << sign, ChannelModeAnonymous >> >>, EmptyStr))

\* C10, amended: a channel whose name starts with "#" or "+" never has the flag a; an
\* operator's +a on such a channel is answered ERR_UNKNOWNMODE and changes no mode; on a
\* "!" channel an operator's +a leaves a set, and -a is answered ERR_UNKNOWNMODE and
\* changes no mode.
C10_AnonymousNotOnHashPlus ==
    /\ [](\A h \in Listed : HasMode(St, h, ChannelModeAnonymous) => chan[h].Name[1] \notin { "#", "+" })
    /\ [][last'.cmd = "MODE" =>
            \A n \in DOMAIN channels :
                LET c == last'.client
                    h == channels[n]
                IN  /\ (n[1] \in { "#", "+" } /\ AnonymousMode(c, n, ModeModifierAdd))
                          => ("ERR_UNKNOWNMODE" \in Got(sent', c) /\ chan'[h].modes = chan[h].modes)
                    /\ (n[1] = "!" /\ AnonymousMode(c, n, ModeModifierAdd))
                          => SetHasMode(chan'[h].modes, ChannelModeAnonymous)
                    /\ (n[1] = "!" /\ AnonymousMode(c, n, ModeModifierRemove))
                          => ("ERR_UNKNOWNMODE" \in Got(sent', c) /\ chan'[h].modes = chan[h].modes)]_vars

\* C10 happens: a "!" channel has a, and the MODE just served was answered
\* ERR_UNKNOWNMODE, as -a is there
C10_AnonymousKept ==
    /\ ~panicked
    /\ last.cmd = "MODE"
    /\ "ERR_UNKNOWNMODE" \in Got(sent, last.client)
    /\ \E h \in Listed : chan[h].Name[1] = "!" /\ HasMode(St, h, ChannelModeAnonymous)

\* C11: JOIN is idempotent.  A JOIN served for a client whose nickname the named channel
\* already has among its members leaves the members map with every member's modes, and the
\* client's own channel map, as they were, and writes no JOIN to anyone.
C11_JoinIdempotent ==
    [][\A c \in Clients, n \in CoreNames :
          (/\ n \in DOMAIN channels
           /\ HasMember(St, channels[n], c)
           /\ Incoming(c, Message3("JOIN", << n >>, EmptyStr)))
             => /\ channels' = channels
                /\ chan'[channels[n]].members = chan[channels[n]].members
                /\ cl'[c].channels = cl[c].channels
                /\ \A d \in Clients : "JOIN" \notin Got(sent', d)]_vars

\* C11 happens: the JOIN just served was by a member of the channel it named, and nothing
\* was written for it
C11_JoinRepeated ==
    /\ ~panicked
    /\ last.cmd = "JOIN"
    /\ \E h \in Listed : HasMember(St, h, last.client) /\ h \in Joined(last.client)
    /\ \A d \in Clients : sent[d] = <<>>

\* C12: round trip of a channel mode with a parameter.  Once an operator has unset k or l,
\* which it had set with a key or a limit, the flag is absent from the channel's mode set
\* (and so from the RPL_CHANNELMODEIS string, which renders the mode set).  Stated for the
\* unsetting step: a MODE <channel> -k or -l, with or without a parameter, sent by an
\* operator of a channel that has the flag, leaves the channel without it.
C12_ParamModeRoundTrip ==
    [][\A c \in Clients, n \in CoreNames, m \in ParamModes :
          (/\ Len(m[1]) = 2
           /\ m[1][1] = ModeModifierRemove
           /\ m[1][2] \in { ChannelModeKey, ChannelModeLimit }
           /\ OperatorOf(c, n)
           /\ HasMode(St, channels[n], m[1][2])
           /\ Incoming(c, Message3("MODE", << n >> \o m, EmptyStr)))
             => ~SetHasMode(chan'[channels[n]].modes, m[1][2])]_vars

\* C13: a channel MODE with mixed signs and arguments.  An operator c sends
\* MODE <channel> +o-v+t b b, where b is the nickname of another member that the
\* directory knows, that has v and has not o, on a channel without t: the members are
\* sent MODE <channel> +o-v+t b b, and afterwards b has o, has not v, and the channel has t.
C13_MixedModeBroadcast ==
    [][\A c, b \in Clients, n \in CoreNames :
          LET h == channels[n]
              nick == cl[b].Nickname
              flags == << "+", "o", "-", "v", "+", "t" >>
          IN  (/\ c # b
               /\ OperatorOf(c, n)
               /\ GetClientByNick(St, nick) = b
               /\ HasMember(St, h, b)
               /\ ~MemberHasModePanics(St, h, b)
               /\ ~MemberHasMode(St, h, b, ChannelModeOperator)
               /\ MemberHasMode(St, h, b, ChannelModeVoice)
               /\ ~HasMode(St, h, ChannelModeTopic)
               /\ Incoming(c, Message3("MODE", << n, flags, nick, nick >>, EmptyStr)))
                 => /\ \E i \in 1..Len(sent'[b]) : sent'[b][i] = Msg("MODE", c, << n, flags, nick, nick >>)
                    /\ SetHasMode(chan'[h].members[nick], ChannelModeOperator)
                    /\ ~SetHasMode(chan'[h].members[nick], ChannelModeVoice)
                    /\ SetHasMode(chan'[h].modes, ChannelModeTopic)]_vars

\* C14: a full channel admits nobody.  A JOIN by a registered client that is no member,
\* for a channel that has l and as many members as its limit or more (and no key), is
\* answered ERR_CHANNELISFULL and adds neither the client to the members nor the channel
\* to the client's own channel map.
C14_FullChannelRefuses ==
    [][\A c \in Clients, n \in CoreNames :
          LET h == channels[n]
          IN  (/\ n \in DOMAIN channels
               /\ HasMode(St, h, ChannelModeLimit)
               /\ ~HasMode(St, h, ChannelModeKey)
               /\ GetMemberCount(St, h) >= GetLimit(St, h)
               /\ cl[c].Registered
               /\ ~HasMember(St, h, c)
               /\ Incoming(c, Message3("JOIN", << n >>, EmptyStr)))
                 => /\ "ERR_CHANNELISFULL" \in Got(sent', c)
                    /\ chan'[h].members = chan[h].members
                    /\ cl'[c].channels = cl[c].channels]_vars

\* C15: the key of a channel.  A JOIN by a registered client that is no member, for a
\* channel that has k, is answered ERR_BADCHANNELKEY and adds nobody when the key it
\* supplies is not the channel's current key (the value of k in the mode set, given at
\* creation or by the latest MODE +k), and makes the client a member when it is.
C15_KeyGuardsJoin ==
    [][\A c \in Clients, n \in CoreNames, key \in Keys :
          LET h == channels[n]
          IN  (/\ n \in DOMAIN channels
               /\ HasMode(St, h, ChannelModeKey)
               /\ cl[c].Registered
               /\ ~HasMember(St, h, c)
               /\ Incoming(c, Message3("JOIN", << n, key >>, EmptyStr)))
                 => IF key = chan[h].modes[ChannelModeKey]
                    THEN cl[c].Nickname \in DOMAIN chan'[h].members
                    ELSE /\ "ERR_BADCHANNELKEY" \in Got(sent', c)
                         /\ chan'[h].members = chan[h].members]_vars

\* the commands of the messages written to client c, in the order they were written
Cmds(out, c) == [i \in 1..Len(out[c]) |-> out[c][i].cmd]

\* C16: registration and the Welcome sequence.  A client is registered exactly when it
\* has a nickname and a user name, whichever came first; the step that registers it, and
\* no other step, writes RPL_WELCOME to it, and what that step writes to it is
\* RPL_WELCOME, RPL_YOURHOST, RPL_CREATED, RPL_MYINFO and the MOTD block (RPL_MOTDSTART,
\* RPL_MOTD, RPL_ENDOFMOTD for the message of the day configured), in this order.
C16_WelcomeOnce ==
    /\ [](\A c \in Clients :
            cl[c].Registered <=> (Len(cl[c].Nickname) # 0 /\ Len(cl[c].Username) # 0))
    /\ [][\A c \in Clients :
            /\ ("RPL_WELCOME" \in Got(sent', c)) <=> (~cl[c].Registered /\ cl'[c].Registered)
            /\ (~cl[c].Registered /\ cl'[c].Registered)
                  => Cmds(sent', c) = << "RPL_WELCOME", "RPL_YOURHOST", "RPL_CREATED", "RPL_MYINFO",
                                         "RPL_MOTDSTART", "RPL_MOTD", "RPL_ENDOFMOTD" >>]_vars

\* C16 happens: the USER just served registered a client that had sent NICK before it and
\* wrote the Welcome sequence to it, while another client is registered already
C16_Welcomed ==
    /\ ~panicked
    /\ last.cmd = "USER"
    /\ cl[last.client].Registered
    /\ "RPL_WELCOME" \in Got(sent, last.client)
    /\ \E d \in Clients \ { last.client } : cl[d].Registered /\ Open(d)

\* C17: the server password.  A client that is not authorized (the server has a password
\* and the client's last accepted PASS was missing or wrong) is never registered; a NICK
\* it sends is answered ERR_PASSWDMISMATCH and stores no nickname; a wrong PASS leaves the
\* connection open; and a PASS from a client that has a nickname or a user name is
\* answered ERR_ALREADYREGISTRED and changes nothing of its authorization.
C17_PasswordGate ==
    /\ [](\A c \in Clients : ~cl[c].Authorized => ~cl[c].Registered)
    /\ [][\A c \in Clients :
            /\ \A n \in Nicks :
                  (~cl[c].Authorized /\ Incoming(c, Message3("NICK", << n >>, EmptyStr)))
                     => /\ "ERR_PASSWDMISMATCH" \in Got(sent', c)
                        /\ cl'[c].Nickname = cl[c].Nickname
                        /\ clientsByNick' = clientsByNick
            /\ \A pw \in { ServerPassword, WrongPassword } :
                  (Len(config.Password) # 0 /\ Incoming(c, Message3("PASS", << pw >>, EmptyStr)))
                     => /\ cl'[c].conn = "open"
                        /\ (Len(cl[c].Nickname) # 0 \/ Len(cl[c].Username) # 0)
                              => /\ "ERR_ALREADYREGISTRED" \in Got(sent', c)
                                 /\ cl'[c].Authorized = cl[c].Authorized]_vars

\* C17 happens: the server has a password, and the NICK just served, from a client whose
\* USER was taken and that is not authorized, was answered ERR_PASSWDMISMATCH
C17_NickRefused ==
    /\ ~panicked
    /\ Len(config.Password) # 0
    /\ last.cmd = "NICK"
    /\ ~cl[last.client].Authorized
    /\ Len(cl[last.client].Username) # 0
    /\ Open(last.client)
    /\ "ERR_PASSWDMISMATCH" \in Got(sent, last.client)

\* C18: the idle supervisor.  A timer callback closes the connection of a client only
\* when it is the quit timer that expired, which Client.idle armed after it sent PING and
\* which no message has cancelled since; and every message served leaves the idle timer
\* armed and the quit timer not armed.  Stated here for the clients that are registered.
C18_DisconnectAfterPing ==
    [][\A c \in Clients :
          /\ (/\ cl[c].Registered
              /\ Open(c)
              /\ cl'[c].conn = "closed"
              /\ last'.client = c
              /\ last'.cmd \in { "idleTimer", "quitTimer" })
                => (cl[c].quitTimer /\ last'.cmd = "quitTimer")
          /\ (/\ last'.client = c
              /\ last'.cmd \notin { "idleTimer", "quitTimer", "accept", "QUIT" }
              /\ Open(c))
                => (cl'[c].idleTimer # "none" /\ ~cl'[c].quitTimer)]_vars

\* the last step served a message of client c
FromClient(c) == last.client = c /\ last.cmd \notin { "accept", "idleTimer", "quitTimer", "EOF" }

\* C19: the idle cascade is live, and it starts with PING.  A connected client from which
\* no further message arrives is eventually sent PING, the first stage of the cascade
\* that then broadcasts QUIT, removes the client from the channels and the directory and
\* closes the socket.  (Where the process has died of a panic there is nobody to ping.)
C19_IdleCascade ==
    \A c \in Clients :
        (Open(c) /\ ~FromClient(c)) ~> (panicked \/ FromClient(c) \/ "PING" \in Got(sent, c))

\* C20: the end of the connection.  The step in which the read from a client's socket
\* fails because the peer closed the connection leaves the client in no channel's
\* members and in neither map of the directory, and its socket closed.
C20_ReadFailureTearsDown ==
    [][\A c \in Clients :
          (last'.client = c /\ last'.cmd = "EOF")
             => /\ cl'[c].conn = "closed"
                /\ c \notin clients'
                /\ \A n \in DOMAIN clientsByNick' : clientsByNick'[n] # c
                /\ \A n \in DOMAIN channels' : cl'[c].Nickname \notin DOMAIN chan'[channels'[n]].members]_vars

\* C21: the QUIT command.  Once the QUIT of a connected client is handled, QUIT has gone to
\* every other connected client whose nickname is with its own among the members of a
\* channel it was in, ERROR was the last message written to it, its connection is closed,
\* no listed channel has its nickname among the members, the directory has neither its
\* address nor its nickname, and no listed channel is without members.
C21_QuitLeavesNothing ==
    [][\A c \in Clients :
          (Open(c) /\ ~panicked' /\ last' = [client |-> c, cmd |-> "QUIT"])
             => /\ \A d \in Clients \ {c} :
                     (Open(d) /\ \E h \in Joined(c) : HasMember(St, h, c) /\ HasMember(St, h, d))
                        => "QUIT" \in Got(sent', d)
                /\ Len(sent'[c]) > 0 /\ sent'[c][Len(sent'[c])].cmd = "ERROR"
                /\ cl'[c].conn = "closed"
                /\ \A n \in DOMAIN channels' : cl[c].Nickname \notin DOMAIN chan'[channels'[n]].members
                /\ c \notin clients'
                /\ cl[c].Nickname \notin DOMAIN clientsByNick'
                /\ \A n \in DOMAIN channels' : DOMAIN chan'[channels'[n]].members # {}]_vars

\* C22: per-sender FIFO delivery.  On every connection, of two PRIVMSG or NOTICE messages
\* of the same sender that were written to it, the one written first is the one the
\* sender submitted first (or the same message), whatever other senders wrote in between.
C22_PerSenderFifo ==
    \A d \in Clients : \A i, j \in DOMAIN wire.log[d] :
        (i < j /\ wire.log[d][i].src = wire.log[d][j].src)
           => Atoi(wire.log[d][i].text) <= Atoi(wire.log[d][j].text)

\* C22 happens: a connection got the first and the second message of another client, one
\* through the channel and one by nickname, and a message of a third sender between them
C22_Interleaved ==
    \E d \in Clients : \E i, k, j \in DOMAIN wire.log[d] :
        /\ i < k /\ k < j
        /\ wire.log[d][i].src # d
        /\ wire.log[d][j].src = wire.log[d][i].src
        /\ wire.log[d][k].src # wire.log[d][i].src
        /\ wire.log[d][i].text = Itoa(1) /\ wire.log[d][j].text = Itoa(2)

\* how many messages with command cmd were written to client c
Times(out, c, cmd) == Cardinality({ i \in DOMAIN out[c] : out[c][i].cmd = cmd })

\* both clients have joined a listed channel that has both nicknames among its members
Shares(c, d) == \E h \in Listed \cap Joined(c) \cap Joined(d) : HasMember(St, h, c) /\ HasMember(St, h, d)

\* C23: the nickname change.  When the NICK of a registered client changes its nickname,
\* one NICK is written to the client, one to every other connected client that shares a
\* channel with it, and none to a connected client that shares no channel with it.
C23_NickNotifiedOnce ==
    [][\A c \in Clients :
          (Open(c) /\ cl[c].Registered /\ ~panicked' /\ last' = [client |-> c, cmd |-> "NICK"]
              /\ cl'[c].Nickname # cl[c].Nickname)
             => /\ Times(sent', c, "NICK") = 1
                /\ \A d \in Clients \ {c} :
                      Open(d) => Times(sent', d, "NICK") = IF Shares(c, d) THEN 1 ELSE 0]_vars

\* the numeric error replies
NumericErrors ==
    { "ERR_ALREADYREGISTRED", "ERR_BADCHANNELKEY", "ERR_CHANNELISFULL", "ERR_CHANOPRIVSNEEDED",
      "ERR_NEEDMOREPARAMS", "ERR_NICKNAMEINUSE", "ERR_NOMOTD", "ERR_NONICKNAMEGIVEN", "ERR_NORECIPIENT",
      "ERR_NOSUCHCHANNEL", "ERR_NOSUCHNICK", "ERR_NOTEXTTOSEND", "ERR_NOTONCHANNEL", "ERR_PASSWDMISMATCH",
      "ERR_TOOMANYTARGETS", "ERR_UMODEUNKNOWNFLAG", "ERR_UNKNOWNCOMMAND", "ERR_UNKNOWNMODE",
      "ERR_USERNOTINCHANNEL", "ERR_USERSDONTMATCH" }

\* C24: malformed input.  A command of a registered client whose parameters are missing or
\* malformed does not stop the process, is answered to the client with numeric error
\* replies only, changes nothing in the directory, the channels and the clients apart from
\* the timers of the sender, and leaves its connection open.
C24_MalformedAnswered ==
    [][\A c \in Clients : \A m \in Malformed(c) :
          (cl[c].Registered /\ Incoming(c, m))
             => /\ ~panicked'
                /\ Len(sent'[c]) > 0
                /\ \A i \in DOMAIN sent'[c] : sent'[c][i].cmd \in NumericErrors
                /\ clients' = clients /\ clientsByNick' = clientsByNick
                /\ channels' = channels /\ chan' = chan
                /\ cl' = [cl EXCEPT ![c].idleTimer = "idle", ![c].quitTimer = FALSE]
                /\ cl'[c].conn = "open"]_vars

\* C25: the MODE broadcast.  When a MODE of an operator of a listed channel changes the
\* modes of the channel or the modes of a member, MODE is written to every connected
\* member the directory knows; and a MODE <channel> +o <nick> or +v <nick> that is written
\* names a member that did not have the mode before the command and has it after.
C25_ModeChangeBroadcast ==
    [][\A c \in Clients, n \in ChanNames :
          (OperatorOf(c, n) /\ pc[c].at = "idle" /\ pc'[c].at = "idle" /\ ~panicked'
              /\ last' = [client |-> c, cmd |-> "MODE"])
             => LET h == channels[n]
                IN  /\ (chan'[h].modes # chan[h].modes \/ chan'[h].members # chan[h].members)
                          => \A d \in Clients :
                                (Open(d) /\ HasMember(St, h, d) /\ GetClientByNick(St, cl[d].Nickname) = d)
                                   => "MODE" \in Got(sent', d)
                    /\ \A i \in DOMAIN sent'[c] : \A f \in { ChannelModeOperator, ChannelModeVoice } :
                          (sent'[c][i].cmd = "MODE" /\ Len(sent'[c][i].args) = 3
                              /\ sent'[c][i].args[1] = n /\ sent'[c][i].args[2] = << "+", f >>)
                             => LET nick == sent'[c][i].args[3]
                                IN  /\ nick \in DOMAIN chan[h].members
                                    /\ ~SetHasMode(chan[h].members[nick], f)
                                    /\ SetHasMode(chan'[h].members[nick], f)]_vars

\* C26: setting p or s clears the other.  When an operator of a listed channel that has
\* one of the flags p and s sends MODE <channel> + the other flag, the channel afterwards
\* has the flag that was sent and has not the flag it had.
C26_SettingClearsOther ==
    [][\A c \in Clients, n \in ChanNames :
          \A fg \in { << ChannelModePrivate, ChannelModeSecret >>, << ChannelModeSecret, ChannelModePrivate >> } :
             (/\ OperatorOf(c, n)
              /\ HasMode(St, channels[n], fg[2])
              /\ ~HasMode(St, channels[n], fg[1])
              /\ Incoming(c, Message3("MODE", << n, << "+", fg[1] >> >>, EmptyStr)))
                => /\ SetHasMode(chan'[channels[n]].modes, fg[1])
                   /\ ~SetHasMode(chan'[channels[n]].modes, fg[2])]_vars

\* a message with command cmd whose second parameter is t was written to client d
GotAbout(out, d, cmd, t) ==
    \E i \in DOMAIN out[d] : out[d][i].cmd = cmd /\ Len(out[d][i].args) >= 2 /\ out[d][i].args[2] = t

\* C27: KICK with a list of targets.  When a registered operator of a listed channel sends
\* KICK <channel> <nick>{,<nick>}: for a nickname that is not among the members,
\* ERR_USERNOTINCHANNEL about it is written to the operator and no KICK about it to
\* anyone; for a nickname among the members, KICK about it is written to every connected
\* member the directory knows, the nickname is no member afterwards, and the client the
\* directory has under it no longer has the channel in its own map.
C27_KickEachTarget ==
    [][\A c \in Clients, n \in CoreNames, ks \in NickLists :
          (cl[c].Registered /\ OperatorOf(c, n) /\ ~panicked'
              /\ Incoming(c, Message3("KICK", << n, ks >>, EmptyStr)))
             => LET h == channels[n]
                    targets == Split(ks, ",")
                IN  \A k \in DOMAIN targets :
                       LET t == targets[k]
                       IN  IF t \notin DOMAIN chan[h].members
                           THEN /\ GotAbout(sent', c, "ERR_USERNOTINCHANNEL", t)
                                /\ \A d \in Clients : ~GotAbout(sent', d, "KICK", t)
                           ELSE /\ \A d \in Clients :
                                      (Open(d) /\ HasMember(St, h, d) /\ GetClientByNick(St, cl[d].Nickname) = d)
                                         => GotAbout(sent', d, "KICK", t)
                                /\ h \in DOMAIN chan' => t \notin DOMAIN chan'[h].members
                                /\ GetClientByNick(St, t) # NoClient
                                      => n \notin DOMAIN cl'[GetClientByNick(St, t)].channels]_vars

\* the client has joined the channel and its nickname is among the members
MemberOf(d, h) == h \in Joined(d) /\ HasMember(St, h, d)

\* C28: a message to a channel.  When a registered client sends PRIVMSG or NOTICE to a
\* listed channel, the message is written once to every other connected client that is a
\* member of the channel, and is not written to the sender nor to a client that is no
\* member.
C28_ChannelMessageOnce ==
    [][\A c \in Clients, n \in CoreNames, cmd \in { "PRIVMSG", "NOTICE" } :
          (cl[c].Registered /\ n \in DOMAIN channels /\ ~panicked'
              /\ Incoming(c, Message3(cmd, << n >>, Text)))
             => \A d \in Clients :
                   Open(d) => Times(sent', d, cmd) = IF d # c /\ MemberOf(d, channels[n]) THEN 1 ELSE 0]_vars

\* C29: who may set the topic.  When a registered member of a listed channel sends TOPIC
\* with a topic that is not empty: if it is an operator of the channel or the channel has
\* not t, the topic of the channel becomes the one sent and TOPIC is written to every
\* connected member; otherwise ERR_CHANOPRIVSNEEDED is written to it and the topic stays
\* what it was.  Whatever other modes the channel has.
C29_TopicPermission ==
    [][\A c \in Clients, n \in CoreNames, topic \in Topics :
          (/\ cl[c].Registered
           /\ n \in DOMAIN channels
           /\ MemberOf(c, channels[n])
           /\ ~MemberHasModePanics(St, channels[n], c)
           /\ ~panicked'
           /\ Incoming(c, Message3("TOPIC", << n >>, topic)))
             => LET h == channels[n]
                IN  IF MemberHasMode(St, h, c, ChannelModeOperator) \/ ~HasMode(St, h, ChannelModeTopic)
                    THEN /\ chan'[h].Topic = topic
                         /\ \A d \in Clients :
                               (Open(d) /\ MemberOf(d, h) /\ GetClientByNick(St, cl[d].Nickname) = d)
                                  => "TOPIC" \in Got(sent', d)
                    ELSE /\ "ERR_CHANOPRIVSNEEDED" \in Got(sent', c)
                         /\ chan'[h].Topic = chan[h].Topic]_vars

\* the replies of the three-line MOTD block
MotdBlock == { "RPL_MOTDSTART", "RPL_MOTD", "RPL_ENDOFMOTD" }

\* C30: the empty message of the day.  With an empty MOTD configured, no reply of the
\* three-line block is written to any client, and the client that was just welcomed or
\* whose MOTD command was just served was written ERR_NOMOTD.
C30_EmptyMotdAlone ==
    (~panicked /\ Len(config.MOTD) = 0)
        => \A c \in Clients :
              /\ Got(sent, c) \cap MotdBlock = {}
              /\ (last.client = c /\ (last.cmd = "MOTD" \/ "RPL_WELCOME" \in Got(sent, c)))
                    => "ERR_NOMOTD" \in Got(sent, c)

\* C31: Channel.Quit and the quitting client.  When the QUIT of a registered client that
\* the directory has under its nickname is handled: no QUIT is written to the client
\* itself; QUIT is written to every other connected member of a channel it is a member
\* of, and its nickname is no member of that channel afterwards; and when it is a member
\* of none of the channels of its own map, no QUIT is written to anyone and no channel
\* changes.
C31_QuitNotToQuitter ==
    [][\A c \in Clients :
          (/\ cl[c].Registered
           /\ GetClientByNick(St, cl[c].Nickname) = c
           /\ ~panicked'
           /\ Incoming(c, Message3("QUIT", <<>>, EmptyStr)))
             => /\ "QUIT" \notin Got(sent', c)
                /\ \A h \in Joined(c) :
                      HasMember(St, h, c)
                         => /\ \A d \in Clients \ {c} :
                                  (Open(d) /\ HasMember(St, h, d) /\ GetClientByNick(St, cl[d].Nickname) = d)
                                     => "QUIT" \in Got(sent', d)
                            /\ h \in DOMAIN chan' => cl[c].Nickname \notin DOMAIN chan'[h].members
                /\ (\A h \in Joined(c) : ~HasMember(St, h, c))
                      => /\ \A d \in Clients : "QUIT" \notin Got(sent', d)
                         /\ \A h \in DOMAIN chan' : h \in DOMAIN chan /\ chan'[h] = chan[h]]_vars

\* the user modes of a client
Umodes(c) == cl[c].userModes

\* C32: user MODE cannot grant what it must not.  A step in which a client gets user mode
\* o is the handling of its own OPER, answered RPL_YOUREOPER.  The handling of a MODE
\* whose first parameter is a nickname gives no client o or O, neither adds nor removes
\* a, and does not remove r; and when that nickname is not the sender's own, the sender is
\* written ERR_USERSDONTMATCH and no client changes apart from the sender's timers.
C32_UserModeGuard ==
    [][/\ \A d \in Clients :
             (UserModeOperator \in cl'[d].userModes /\ UserModeOperator \notin Umodes(d))
                => last' = [client |-> d, cmd |-> "OPER"] /\ "RPL_YOUREOPER" \in Got(sent', d)
       /\ \A c \in Clients, to \in Nicks, f \in UserModeStrings :
             (/\ ~panicked' /\ last' = [client |-> c, cmd |-> "MODE"]
              /\ Incoming(c, Message3("MODE", << to, f >>, EmptyStr)))
                => /\ \A d \in Clients :
                         /\ cl'[d].userModes \cap { UserModeOperator, UserModeLocalOperator }
                               \subseteq Umodes(d)
                         /\ (UserModeAway \in cl'[d].userModes) = (UserModeAway \in Umodes(d))
                         /\ UserModeRestricted \in Umodes(d) => UserModeRestricted \in cl'[d].userModes
                   /\ to # cl[c].Nickname
                         => /\ "ERR_USERSDONTMATCH" \in Got(sent', c)
                            /\ \A d \in Clients \ {c} : cl'[d] = cl[d]
                            /\ cl'[c].userModes = Umodes(c)]_vars

\* C32 happens: a MODE was just served for a client that is restricted and away and is
\* no operator while another client is one, and it was answered with the client's modes
C32_RestrictedStays ==
    \E c \in Clients : \E d \in Clients \ {c} :
        /\ last = [client |-> c, cmd |-> "MODE"]
        /\ "RPL_UMODEIS" \in Got(sent, c)
        /\ { UserModeRestricted, UserModeAway } \subseteq Umodes(c)
        /\ UserModeOperator \notin Umodes(c)
        /\ UserModeOperator \in Umodes(d)

\* what the last step did with mutexes and guarded maps
Events == { locks.ev[i] : i \in DOMAIN locks.ev }

\* the acquisitions among them
Acquisitions == { e \in Events : e.op \in { "Lock", "RLock" } }

\* the mutexes of the directory
DirectoryMutexes == { ClientMutex, ClientByNickMutex, ChannelMutex }

\* C33: no task acquires a mutex of the directory while it holds the members mutex of a
\* channel
C33_NoDirectoryLockUnderMembers ==
    \A e \in Acquisitions :
        e.on \in DirectoryMutexes => \A m \in e.held : m.mutex # "Channel.membersMutex"

\* C34: every range over the members map of a channel, and every len of it, is made by
\* a task that holds the members mutex of that channel
C34_MembersReadUnderLock ==
    \A e \in Events :
        (e.op = "range" /\ e.on.mutex = "Channel.membersMutex") => e.on \in e.held

\* the order in which the mutexes are taken: a client's channelMutex, then a channel's
\* membersMutex, then a mutex of the directory
Rank(m) ==
    CASE m.mutex = "Client.channelMutex" -> 1
      [] m.mutex = "Channel.membersMutex" -> 2
      [] OTHER -> 3

\* C38: no deadlock on the mutexes of the directory, the channels and the clients.  Every
\* task takes a mutex only while the mutexes it holds come strictly earlier in one fixed
\* order (so it never takes a mutex it holds, and no cycle of tasks waiting for each other
\* can form).
C38_LockOrder ==
    \A e \in Acquisitions : \A m \in e.held : Rank(m) < Rank(e.on)

\* C38 happens: a NICK was served for a member of a channel another client is a member of
\* too, and its task took the members mutex and a directory mutex while holding a mutex
C38_NestedAcquisitions ==
    \E c \in Clients : \E d \in Clients \ {c} : \E h \in Listed :
        /\ last = [client |-> c, cmd |-> "NICK"]
        /\ HasMember(St, h, c) /\ HasMember(St, h, d)
        /\ \E e \in Acquisitions : e.on = MembersMutex(h) /\ e.held = { ClientChannelMutex(c) }
        /\ \E e \in Acquisitions : e.on = ClientByNickMutex /\ e.held = { ClientChannelMutex(c) }

\* C35: closing a client removes from the nickname directory only an entry that maps to
\* that client; the entry of every other client is left as it was
C35_CloseKeepsOthersEntries ==
    [][\A c \in Clients :
          (cl[c].conn # "closed" /\ cl'[c].conn = "closed")
             => \A n \in DOMAIN clientsByNick :
                   clientsByNick[n] # c
                      => n \in DOMAIN clientsByNick' /\ clientsByNick'[n] = clientsByNick[n]]_vars

\* C36: after a client has been closed nothing further is done on its behalf: a timer of
\* a closed client that fires sends no QUIT, removes no member of any channel and removes
\* no entry of the directory
C36_ClosedClientIsInert ==
    [][\A c \in Clients :
          (cl[c].conn = "closed" /\ last'.client = c /\ last'.cmd \in { "idleTimer", "quitTimer" })
             => /\ \A d \in Clients : "QUIT" \notin Got(sent', d)
                /\ clientsByNick' = clientsByNick
                /\ channels' = channels
                /\ \A h \in Listed : h \in DOMAIN chan' /\ chan'[h].members = chan[h].members]_vars

\* C37: when JOINs of the same channel name race, there is one channel of that name;
\* once no JoinHandler is running, every channel a client has joined is the one the
\* directory lists, and a listed channel with members has exactly one creator with o
C37_OneChannelPerName ==
    (\A c \in Clients : pc[c].at = "idle" /\ (Open(c) => cl[c].Registered))
       => /\ \A c \in Clients : Open(c) => Joined(c) \subseteq Listed
          /\ \A h \in Listed :
                DOMAIN chan[h].members # {}
                   => Cardinality({ n \in DOMAIN chan[h].members :
                                      SetHasMode(chan[h].members[n], ChannelModeOperator) }) = 1

\* the characters of the keys the clients use
KeyChars == UNION { { k[i] : i \in DOMAIN k } : k \in Keys }

\* C39: the key of a keyed channel is not sent to a client that is no member of it: the
\* mode string of an RPL_CHANNELMODEIS written to a registered non-member holds no
\* character of a key
C39_KeyNotToOutsiders ==
    \A c \in Clients : \A h \in Listed :
        (/\ cl[c].Registered
         /\ ChannelModeKey \in DOMAIN chan[h].modes
         /\ ~HasMember(St, h, c))
           => \A i \in DOMAIN sent[c] :
                 (sent[c][i].cmd = "RPL_CHANNELMODEIS" /\ sent[c][i].args[2] = chan[h].Name)
                    => \A j \in DOMAIN sent[c][i].args[3] : sent[c][i].args[3][j] \notin KeyChars

\* the limit of Channel h in the mode set m, 0 - 1 standing for none
LimitIn(m) == IF ChannelModeLimit \in DOMAIN m THEN m[ChannelModeLimit] ELSE 0 - 1

\* C40: a channel mode flag given with - never adds or sets a value.  A MODE <channel> -l 1
\* leaves the limit of the channel as it was; a MODE <channel> -b, -e or -I <mask> adds no
\* mask to the list; and a -b <mask> sent by an operator for a listed mask removes it.
C40_MinusNeverSets ==
    [][\A c \in Clients, n \in CoreNames :
          LET h == GetChannel(St, n)
          IN  (h # NoChan /\ ~panicked' /\ last' = [client |-> c, cmd |-> "MODE"])
                 => /\ Incoming(c, Message3("MODE", << n, <<"-", "l">>, <<"1">> >>, EmptyStr))
                          => LimitIn(chan'[h].modes) = LimitIn(chan[h].modes)
                    /\ \A f \in ListFlags :
                          Incoming(c, Message3("MODE", << n, << "-", f >>, Mask >>, EmptyStr))
                             => /\ GetMasks(St', h, f) \subseteq GetMasks(St, h, f)
                                /\ (/\ f = ChannelModeBan
                                    /\ MemberHasMode(St, h, c, ChannelModeOperator)
                                    /\ FillMask(Mask) \in GetMasks(St, h, f))
                                      => FillMask(Mask) \notin GetMasks(St', h, f)]_vars

====
